---- MODULE Spec2Model ----
(***************************************************************************)
(* XRFeitoria capture plugin: the occlusion classifier and the geometry    *)
(* sampler of XF_BlueprintFunctionLibrary.cpp, as state machines over the  *)
(* caller's output parameters.                                             *)
(*                                                                         *)
(* Coordinates are integers. FVector::Dist(a, b) < t is decided on squared *)
(* distances. A float rate is the record of a count and a total (their     *)
(* quotient), or NaN for 0/0.                                              *)
(***************************************************************************)
EXTENDS Integers, Sequences, FiniteSets, TLC

VARIABLES
    VerticesOcclusion,      \* the caller's TArray<EOcclusion>& (label output array)
    non_occlusion_rate,     \* the caller's float& outputs
    self_occlusion_rate,
    inter_occlusion_rate,
    occCaller,              \* the caller's pins: Camera, MeshName, MeshThickness
    occCall,                \* the last occlusion operation and its inputs
    occRet,                 \* what it returned (or Crashed)
    rayCount,               \* rays cast by the last occlusion operation
    ENGINE_MAJOR_VERSION,   \* the engine the plugin is built for (4 or 5)
    samComp,                \* the mesh component of the scene the caller samples
    VertexPositions,        \* the caller's TArray<FVector>& VertexPositions
    BoneLocations,          \* the caller's TArray<FVector>& BoneLocations
    BoneNames,              \* the caller's TArray<FName>& BoneNames
    samCall,                \* the last sampler operation and its inputs
    samRet,                 \* what it returned (or Crashed)
    Centers,                \* the caller's TArray<FVector>& Centers
    faceCall,               \* the face-center operation's inputs
    faceRet,                \* what it returned (or Crashed)
    boxCall,                \* DivideSceneViaBoxTrace: its parameters and the scene
    boxPc,                  \* where the call is
    SignX,                  \* the quadrant being swept
    SignY,
    gridI,                  \* int i, int j of the sweep loop
    gridJ,
    NotHitCount,
    NotHitRowCount,
    HitBoxesInfo,           \* the table, as the sequence of its rows
    boxStep,                \* the last iteration of the sweep loop
    stepCount,              \* iterations of the sweep loop in this quadrant
    savedFile,              \* what SaveTextToFile left in the file
    batchCall,              \* DivideSceneViaBoxTraceBatch: its parameters and the scene
    batchPc,                \* where the batch call is
    batchI,                 \* int i of its loop over StartPoints
    batchLog,               \* the calls of DivideSceneViaBoxTrace it has made
    batchFiles,             \* the files those calls have written
    convTransform,          \* the caller's FTransform& of the axis conversions
    convOriginal,           \* what it was before the first conversion
    convLog,                \* the conversions applied to it
    insideCall,             \* TestInside: what its two rays find
    insideUpHitResult,      \* the caller's FHitResult& UpHitResult
    insideRet,              \* what it returned (or Crashed)
    gearClass,              \* the class the Gear plugin's loop counted the sample in
    bIsFirstFrame,          \* UMoviePipelineMeshOperator::bIsFirstFrame
    meshFrame,              \* number of frames the operator has received
    meshWritten,            \* the files written so far: kind, mesh and frame of each write
    meshOption,             \* SkeletalMeshOperatorOption and StaticMeshOperatorOption
    bInitialized,           \* AAnnotator::bInitialized
    LevelSequenceActor,     \* AAnnotator::LevelSequenceActor and LevelSequencePlayer: Unset or the actor last stored
    annPc,                  \* Ticking, or Crashed after a read through an unset pointer
    annTicks                \* what each Tick so far did

occVars == <<VerticesOcclusion, non_occlusion_rate, self_occlusion_rate,
             inter_occlusion_rate, occCaller, occCall, occRet, rayCount>>

samVars == <<ENGINE_MAJOR_VERSION, samComp, VertexPositions, BoneLocations,
             BoneNames, samCall, samRet>>

faceVars == <<Centers, faceCall, faceRet>>

boxVars == <<boxCall, boxPc, SignX, SignY, gridI, gridJ, NotHitCount,
             NotHitRowCount, HitBoxesInfo, boxStep, stepCount, savedFile>>

batchVars == <<batchCall, batchPc, batchI, batchLog, batchFiles>>

convVars == <<convTransform, convOriginal, convLog>>

insideVars == <<insideCall, insideUpHitResult, insideRet>>

gearVars == <<gearClass>>

meshOpVars == <<bIsFirstFrame, meshFrame, meshWritten, meshOption>>

annVars == <<bInitialized, LevelSequenceActor, annPc, annTicks>>

vars == <<occVars, samVars, faceVars, boxVars, batchVars, convVars, insideVars, gearVars, meshOpVars, annVars>>

\* What the operations of one component leave alone.
OthersThanOcc == <<samVars, faceVars, boxVars, batchVars, convVars, insideVars, gearVars, meshOpVars, annVars>>
OthersThanSam == <<occVars, faceVars, boxVars, batchVars, convVars, insideVars, gearVars, meshOpVars, annVars>>
OthersThanFace == <<occVars, samVars, boxVars, batchVars, convVars, insideVars, gearVars, meshOpVars, annVars>>
OthersThanBox == <<occVars, samVars, faceVars, batchVars, convVars, insideVars, gearVars, meshOpVars, annVars>>
OthersThanOccSam == <<faceVars, boxVars, batchVars, convVars, insideVars, gearVars, meshOpVars, annVars>>
OthersThanBoxBatch == <<occVars, samVars, faceVars, convVars, insideVars, gearVars, meshOpVars, annVars>>
OthersThanBatch == <<occVars, samVars, faceVars, boxVars, convVars, insideVars, gearVars, meshOpVars, annVars>>
OthersThanConv == <<occVars, samVars, faceVars, boxVars, batchVars, insideVars, gearVars, meshOpVars, annVars>>
OthersThanInside == <<occVars, samVars, faceVars, boxVars, batchVars, convVars, gearVars, meshOpVars, annVars>>
OthersThanGear == <<occVars, samVars, faceVars, boxVars, batchVars, convVars, insideVars, meshOpVars, annVars>>
OthersThanMeshOp == <<occVars, samVars, faceVars, boxVars, batchVars, convVars, insideVars, gearVars, annVars>>
OthersThanAnn == <<occVars, samVars, faceVars, boxVars, batchVars, convVars, insideVars, gearVars, meshOpVars>>

-----------------------------------------------------------------------------
(* Bounds of the model *)

MaxPoints == 2          \* longest point set given to a batch operation
MaxStale == 2           \* longest output array a caller hands in again
MaxThickness == 6       \* largest thickness threshold a caller passes
MaxLODs == 2            \* most LODs (UE4: collision tri meshes) of a mesh
MaxVerts == 2           \* most vertices of one LOD
MaxBones == 2           \* most bones of a skeleton

-----------------------------------------------------------------------------
(* Values *)

\* A null pointer. Objects are records of their own fields.
NULL == [null |-> TRUE]
Crashed == "Crashed"    \* the process died (null dereference, failed range check)
NotCalled == "NotCalled"
\* A bool return value; a call that died returns nothing (Crashed).
RetTrue == "true"
RetFalse == "false"
\* A float: not yet given a value by anyone, NaN, infinite, or the quotient
\* num/den of two counts.
Unset == [kind |-> "Unset"]
NaN == [kind |-> "NaN"]
Inf == [kind |-> "Inf"]
Ratio(n, d) == [kind |-> "Ratio", num |-> n, den |-> d]

NonOcclusion == "NonOcclusion"
SelfOcclusion == "SelfOcclusion"
InterOcclusion == "InterOcclusion"
EOcclusion == {NonOcclusion, SelfOcclusion, InterOcclusion}

\* FName of the actors of the scene; NoActor is a hit record without an actor.
ActorNames == {"Body", "Wall"}
NoActor == "NoActor"

ZeroVector == <<0, 0, 0>>

\* An ACameraActor* as the caller holds it.
TheCamera == [ActorLocation |-> <<-100, 0, 0>>]
Cameras == {NULL, TheCamera}

Add3(a, b) == <<a[1] + b[1], a[2] + b[2], a[3] + b[3]>>
\* Sample points (trace ends) and hit locations. From <<0,0,0>> the hit
\* locations lie at distance 4, exactly 5 and 6.
SamplePoints == {<<0, 0, 0>>, <<1, 0, 0>>}
HitLocations == {<<4, 0, 0>>, <<3, 4, 0>>, <<6, 0, 0>>}
\* Where the scene of a batch operation stops a ray, relative to the ray's
\* end: at distance 4 and at distance exactly 5.
SceneHitOffsets == {<<4, 0, 0>>, <<3, 4, 0>>}
\* The i-th point of a point set: distinct points, in order.
PointAt(i) == <<i - 1, 0, 0>>
PointSet(n) == [i \in 1..n |-> PointAt(i)]

DefaultMeshThickness == 5
\* int MeshThickness of GetOcclusionFromHitResult; float MeshThickness of the
\* batch operations (whole numbers around the default).
Thicknesses == {-1, 0} \cup ((DefaultMeshThickness - 1)..MaxThickness)
BatchThicknesses == (DefaultMeshThickness - 1)..MaxThickness

DistSquared(a, b) ==
    (a[1] - b[1]) * (a[1] - b[1]) + (a[2] - b[2]) * (a[2] - b[2])
        + (a[3] - b[3]) * (a[3] - b[3])

\* FVector::Dist(a, b) < t for an integer t.
DistLess(a, b, t) == t > 0 /\ DistSquared(a, b) < t * t

\* (float)a / (float)b
FloatDiv(a, b) ==
    IF b = 0 THEN (IF a = 0 THEN NaN ELSE Inf) ELSE Ratio(a, b)

\* An FHitResult as the classifier reads it.
FHitResult(actor, location, traceEnd) ==
    [Actor |-> actor, Location |-> location, TraceEnd |-> traceEnd]

\* FHitResult() as LineTraceSingle leaves it when nothing was hit.
NoHitResult(traceEnd) == FHitResult(NoActor, ZeroVector, traceEnd)

HitResults ==
    {FHitResult(a, l, e) : a \in ActorNames \cup {NoActor},
                           l \in HitLocations \cup {ZeroVector},
                           e \in SamplePoints}

-----------------------------------------------------------------------------
(* The callers' outputs before any call, and a component that is not in use *)

\* The caller's outputs before any call.
OccOutputsFresh ==
    /\ VerticesOcclusion = <<>>
    /\ non_occlusion_rate = Unset
    /\ self_occlusion_rate = Unset
    /\ inter_occlusion_rate = Unset
    /\ occRet = NotCalled
    /\ rayCount = 0

\* The occlusion operations are not in use.
OccIdle ==
    /\ OccOutputsFresh
    /\ occCaller = [Camera |-> TheCamera, MeshName |-> "Body",
                    MeshThickness |-> DefaultMeshThickness]
    /\ occCall = [op |-> NotCalled]

SamOutputsFresh ==
    /\ VertexPositions = <<>>
    /\ BoneLocations = <<>>
    /\ BoneNames = <<>>
    /\ samCall = [op |-> NotCalled]
    /\ samRet = NotCalled

\* The sampler operations are not in use.
SamIdle ==
    /\ ENGINE_MAJOR_VERSION = 5
    /\ samComp = NULL
    /\ SamOutputsFresh

\* The face-center operation is not in use.
FaceIdle ==
    /\ Centers = <<>>
    /\ faceCall = [op |-> NotCalled]
    /\ faceRet = NotCalled

\* State of the sweep loop before DivideSceneViaBoxTrace reaches it.
SweepNotStarted ==
    /\ SignX = 1 /\ SignY = 1
    /\ gridI = 0 /\ gridJ = 0
    /\ NotHitCount = 0 /\ NotHitRowCount = 0
    /\ HitBoxesInfo = <<>>
    /\ boxStep = [kind |-> NotCalled]
    /\ stepCount = 0
    /\ savedFile = [written |-> FALSE]

\* DivideSceneViaBoxTrace is not in use.
BoxIdle ==
    /\ boxCall = [op |-> NotCalled]
    /\ boxPc = NotCalled
    /\ SweepNotStarted

\* DivideSceneViaBoxTraceBatch is not in use.
BatchIdle ==
    /\ batchCall = [op |-> NotCalled]
    /\ batchPc = NotCalled
    /\ batchI = 0
    /\ batchLog = <<>>
    /\ batchFiles = {}

\* No transform is being converted.
ConvIdle ==
    /\ convTransform = [op |-> NotCalled]
    /\ convOriginal = [op |-> NotCalled]
    /\ convLog = <<>>

\* TestInside is not in use.
InsideIdle ==
    /\ insideCall = [op |-> NotCalled]
    /\ insideUpHitResult = [Actor |-> NoActor, Distance |-> 0]
    /\ insideRet = NotCalled

\* The mesh operator as constructed, before any frame and with no option chosen.
MeshOpIdle ==
    /\ bIsFirstFrame = TRUE
    /\ meshFrame = 0
    /\ meshWritten = {}
    /\ meshOption = [bEnabled |-> FALSE, bSaveVerticesPosition |-> FALSE,
                     bSaveSkeletonPosition |-> FALSE, bStaticEnabled |-> FALSE,
                     bStaticSaveVerticesPosition |-> FALSE]

\* The pointer members before any actor was stored in them.
UnsetActor == "UnsetActor"

\* The annotator as constructed, never ticked.
AnnIdle ==
    /\ bInitialized = FALSE
    /\ LevelSequenceActor = UnsetActor
    /\ annPc = "Ticking"
    /\ annTicks = <<>>

\* The Gear plugin's DetectOcclusionSkeletalMesh is not in use.
GearIdle == gearClass = NotCalled

-----------------------------------------------------------------------------
(* GetOcclusionFromHitResult *)

\* The rule with the boundary distance counted as self-occlusion (<=).
OcclusionOfHit_Inclusive(HitActorName, HitResult, MeshName, MeshThickness) ==
    LET Occlusion1 ==
            IF HitActorName = MeshName
               /\ MeshThickness >= 0
               /\ DistSquared(HitResult.TraceEnd, HitResult.Location)
                      <= MeshThickness * MeshThickness
            THEN SelfOcclusion ELSE NonOcclusion
    IN  IF HitActorName # MeshName THEN InterOcclusion ELSE Occlusion1

\* The rule with the distance test taken before the owner test.
OcclusionOfHit_DistanceFirst(HitActorName, HitResult, MeshName, MeshThickness) ==
    IF DistLess(HitResult.TraceEnd, HitResult.Location, MeshThickness)
    THEN SelfOcclusion
    ELSE IF HitActorName # MeshName THEN InterOcclusion ELSE NonOcclusion

\* Lines 446-455, once HitResult.GetActor()->GetFName() is known.
OcclusionOfHit(HitActorName, HitResult, MeshName, MeshThickness) ==
    LET HitPosition == HitResult.Location
        TraceEndPotision == HitResult.TraceEnd
        Occlusion1 ==
            IF HitActorName = MeshName
               /\ DistLess(TraceEndPotision, HitPosition, MeshThickness)
            THEN SelfOcclusion ELSE NonOcclusion
    IN  IF HitActorName # MeshName THEN InterOcclusion ELSE Occlusion1

\* The classifier reading the hit record without looking at bIsHit.
GetOcclusionFromHitResult_IgnoresHitFlag(HitResult, MeshName, MeshThickness, bIsHit) ==
    IF HitResult.Actor = NoActor THEN {NonOcclusion}
    ELSE {OcclusionOfHit(HitResult.Actor, HitResult, MeshName, MeshThickness)}

\* The set of results the call can have. With bIsHit and no actor in the hit
\* record, GetActor() is null and GetFName() reads through it: the process
\* dies, or the name read is arbitrary.
GetOcclusionFromHitResult(HitResult, MeshName, MeshThickness, bIsHit) ==
    IF ~bIsHit THEN {NonOcclusion}
    ELSE IF HitResult.Actor = NoActor
         THEN {Crashed} \cup
              {OcclusionOfHit(n, HitResult, MeshName, MeshThickness) :
                   n \in ActorNames}
         ELSE {OcclusionOfHit(HitResult.Actor, HitResult, MeshName, MeshThickness)}


-----------------------------------------------------------------------------
(* Meshes, skeletons and transforms *)

\* An FTransform: scale, then a rotation of Yaw quarter turns about Z, then
\* the translation.
FTransform(translation, yaw, scale) ==
    [Translation |-> translation, Yaw |-> yaw, Scale3D |-> scale]

RotateYaw(q, v) ==
    CASE q = 0 -> v
      [] q = 1 -> <<-v[2], v[1], v[3]>>
      [] q = 2 -> <<-v[1], -v[2], v[3]>>
      [] q = 3 -> <<v[2], -v[1], v[3]>>

\* FTransform::TransformPosition
TransformPosition(T, v) ==
    Add3(RotateYaw(T.Yaw, <<T.Scale3D[1] * v[1], T.Scale3D[2] * v[2],
                            T.Scale3D[3] * v[3]>>),
         T.Translation)

Transforms ==
    {FTransform(ZeroVector, 0, <<1, 1, 1>>),
     FTransform(<<10, 20, 30>>, 1, <<2, 2, 2>>)}

\* Vertex i of LOD l of a mesh, in component space: a LOD is known by its
\* number of vertices.
LODVertex(l, i) == <<i, l, 0>>
LODVertices(l, n) == [i \in 1..n |-> LODVertex(l, i)]
\* The LODs of a mesh: for each LOD its vertices.
LODLists ==
    UNION {{[LODs |-> [l \in 1..k |-> LODVertices(l, c[l])]] :
                c \in [1..k -> 0..MaxVerts]} : k \in 0..MaxLODs}

\* UE4 UBodySetup::TriMeshes: each entry a tri mesh or null.
TriMeshLists ==
    UNION {{[TriMeshes |->
                [l \in 1..k |-> IF c[l] = -1 THEN NULL
                                ELSE [Vertices |-> LODVertices(l, c[l])]]] :
                c \in [1..k -> -1..MaxVerts]} : k \in 0..MaxLODs}

\* A UStaticMeshComponent*. valid is IsValidLowLevel(); Mesh is the
\* UStaticMesh (its mesh description per LOD) or null; BodySetup is its
\* TriMeshes or null.
StaticCompsUE5 ==
    [kind : {"static"}, valid : {TRUE}, Mesh : LODLists \cup {NULL},
     BodySetup : {NULL}, Transform : Transforms]
StaticCompsUE4 ==
    [kind : {"static"}, valid : BOOLEAN, Mesh : {NULL},
     BodySetup : TriMeshLists \cup {NULL}, Transform : Transforms]

\* The bones of a skeleton: unique names in the skeleton's order, each with
\* its component-space position in the current pose.
BoneName(i) == <<"bone", i>>
BonePosition(i) == <<0, 0, i>>
Skeletons == {[i \in 1..n |-> BoneName(i)] : n \in 0..MaxBones}
BoneIndex(names, name) == CHOOSE i \in 1..Len(names) : names[i] = name

\* A USkeletalMeshComponent*. RenderData is GetSkeletalMeshRenderData()
\* (the skinned vertices of each LOD in the current pose) or null.
SkeletalComps ==
    [kind : {"skeletal"}, valid : BOOLEAN, RenderData : LODLists \cup {NULL},
     Bones : Skeletons, Transform : Transforms]

RECURSIVE Flatten(_)
Flatten(ss) == IF ss = <<>> THEN <<>> ELSE Head(ss) \o Flatten(Tail(ss))

TransformAll(T, vs) == [i \in 1..Len(vs) |-> TransformPosition(T, vs[i])]

\* What a read outside the LOD array can find in place of a LOD.
GarbageLODs == {<<>>, <<<<99, 99, 99>>>>}

-----------------------------------------------------------------------------
(* The sampler operations: each gives the set of outcomes of a call, the     *)
(* caller's output array(s) after it and the return value.                   *)

SamplerResult(ret, positions) == [ret |-> ret, VertexPositions |-> positions]

\* #elif ENGINE_MAJOR_VERSION == 5
GetStaticMeshVertexLocationsUE5(Comp, LodIndex, Prior) ==
    IF Comp = NULL THEN {SamplerResult(RetFalse, Prior)}
    ELSE IF Comp.Mesh = NULL THEN {SamplerResult(RetFalse, Prior)}
    ELSE IF LodIndex \notin 1..Len(Comp.Mesh.LODs)  \* GetStaticMeshDescription
         THEN {SamplerResult(RetFalse, Prior)}      \* gave no description
    ELSE {SamplerResult(RetTrue,
              Prior \o TransformAll(Comp.Transform, Comp.Mesh.LODs[LodIndex]))}

\* #if ENGINE_MAJOR_VERSION == 4: the vertices of the collision tri meshes.
GetStaticMeshVertexLocationsUE4(Comp, LodIndex, Prior) ==
    IF Comp = NULL THEN {SamplerResult(RetFalse, <<>>)}
    ELSE IF ~Comp.valid THEN {SamplerResult(RetFalse, <<>>)}
    ELSE IF Comp.BodySetup = NULL THEN {SamplerResult(RetFalse, <<>>)}
    ELSE LET Tri == Comp.BodySetup.TriMeshes
             Nulls == {k \in 1..Len(Tri) : Tri[k] = NULL}
             Stop == IF Nulls = {} THEN Len(Tri) + 1
                     ELSE CHOOSE k \in Nulls : \A m \in Nulls : k <= m
             Added == Flatten([k \in 1..(Stop - 1) |-> Tri[k].Vertices])
         IN  {SamplerResult(IF Nulls = {} THEN RetTrue ELSE RetFalse,
                            TransformAll(Comp.Transform, Added))}

GetStaticMeshVertexLocations(Version, Comp, LodIndex, Prior) ==
    IF Version = 4 THEN GetStaticMeshVertexLocationsUE4(Comp, LodIndex, Prior)
    ELSE GetStaticMeshVertexLocationsUE5(Comp, LodIndex, Prior)

SkinnedResult(ret, positions, lodRead) ==
    [ret |-> ret, VertexPositions |-> positions, lodRead |-> lodRead]

\* if (LODIndex > LODTotal)
LODIndexRejected(LODIndex, LODTotal) == LODIndex > LODTotal

\* LOD indices are 0-based in the code; the model's sequences are 1-based, so
\* the LOD of index LODIndex is LODs[LODIndex + 1]. lodRead holds the index
\* LODRenderData was read at (empty: not read). A read outside the
\* array (the range check fails, or the memory behind the array is read) and
\* a read through null render data kill the process or find garbage.
GetSkeletalMeshVertexLocationsByLODIndex(Comp, LODIndex, Prior) ==
    IF Comp = NULL THEN {SkinnedResult(RetFalse, <<>>, {})}
    ELSE IF ~Comp.valid THEN {SkinnedResult(RetFalse, <<>>, {})}
    ELSE IF Comp.RenderData = NULL
         THEN {SkinnedResult(Crashed, <<>>, {})} \cup
              {SkinnedResult(RetTrue, TransformAll(Comp.Transform, g), {LODIndex}) :
                   g \in GarbageLODs}
    ELSE LET LODTotal == Len(Comp.RenderData.LODs)
         IN  IF LODIndexRejected(LODIndex, LODTotal)
             THEN {SkinnedResult(RetFalse, <<>>, {})}
             ELSE IF LODIndex \in 0..(LODTotal - 1)
             THEN {SkinnedResult(RetTrue,
                       TransformAll(Comp.Transform, Comp.RenderData.LODs[LODIndex + 1]),
                       {LODIndex})}
             ELSE {SkinnedResult(Crashed, <<>>, {LODIndex})} \cup
                  {SkinnedResult(RetTrue, TransformAll(Comp.Transform, g), {LODIndex}) :
                       g \in GarbageLODs}

BonesResult(ret, locations, names) ==
    [ret |-> ret, BoneLocations |-> locations, BoneNames |-> names]

\* GetBoneLocation(name): the world-space location of the bone of that name.
GetBoneLocation(Comp, name) ==
    TransformPosition(Comp.Transform, BonePosition(BoneIndex(Comp.Bones, name)))

\* The operation without its two Empty() calls: names and locations are
\* added behind what the arrays held.
GetSkeletalMeshBoneLocations_Appends(Comp, PriorLocations, PriorNames) ==
    IF Comp = NULL THEN {BonesResult(RetFalse, PriorLocations, PriorNames)}
    ELSE LET Names == Comp.Bones
         IN  {BonesResult(RetTrue,
                  PriorLocations \o
                      [Itr \in 1..Len(Names) |-> GetBoneLocation(Comp, Names[Itr])],
                  PriorNames \o Names)}

GetSkeletalMeshBoneLocations(Comp, PriorLocations, PriorNames) ==
    IF Comp = NULL THEN {BonesResult(RetFalse, PriorLocations, PriorNames)}
    ELSE LET Names == Comp.Bones
         IN  {BonesResult(RetTrue,
                  [Itr \in 1..Len(Names) |-> GetBoneLocation(Comp, Names[Itr])],
                  Names)}

-----------------------------------------------------------------------------
(* A caller that samples one mesh component of the scene, frame after frame, *)
(* into its own output arrays.                                               *)

SamAlive == samRet # Crashed

\* The call before this one, as far as a later call is compared with it.
PrevCall ==
    IF samCall.op = NotCalled THEN [op |-> NotCalled]
    ELSE [op |-> samCall.op, Comp |-> samCall.Comp,
          LODIndex |-> samCall.LODIndex, ret |-> samRet]

\* The component pins of a call: the scene's component or none.
CompPins(kind) == IF samComp.kind = kind THEN {NULL, samComp} ELSE {}

\* LOD indices a caller passes (0-based).
LODIndices == -1..(MaxLODs + 1)

CallGetStaticMeshVertexLocations ==
    /\ SamAlive
    /\ Len(VertexPositions) <= MaxStale
    /\ \E Comp \in CompPins("static"), LodIndex \in LODIndices :
         \E out \in GetStaticMeshVertexLocations(
                        ENGINE_MAJOR_VERSION, Comp,
                        LodIndex + 1, VertexPositions) :
           /\ samCall' = [op |-> "GetStaticMeshVertexLocations", Comp |-> Comp,
                          LODIndex |-> LodIndex, Prior |-> VertexPositions,
                          lodRead |-> {}, prev |-> PrevCall]
           /\ samRet' = out.ret
           /\ VertexPositions' = out.VertexPositions
    /\ UNCHANGED <<ENGINE_MAJOR_VERSION, samComp, BoneLocations, BoneNames>>
    /\ UNCHANGED OthersThanSam

CallGetSkeletalMeshVertexLocationsByLODIndex ==
    /\ SamAlive
    /\ Len(VertexPositions) <= MaxStale
    /\ \E Comp \in CompPins("skeletal"), LODIndex \in LODIndices :
         \E out \in GetSkeletalMeshVertexLocationsByLODIndex(
                        Comp, LODIndex, VertexPositions) :
           /\ samCall' = [op |-> "GetSkeletalMeshVertexLocationsByLODIndex",
                          Comp |-> Comp, LODIndex |-> LODIndex,
                          Prior |-> VertexPositions, lodRead |-> out.lodRead,
                          prev |-> PrevCall]
           /\ samRet' = out.ret
           /\ VertexPositions' = out.VertexPositions
    /\ UNCHANGED <<ENGINE_MAJOR_VERSION, samComp, BoneLocations, BoneNames>>
    /\ UNCHANGED OthersThanSam

CallGetSkeletalMeshBoneLocations ==
    /\ SamAlive
    /\ \E Comp \in CompPins("skeletal") :
         \E out \in GetSkeletalMeshBoneLocations(Comp, BoneLocations, BoneNames) :
           /\ samCall' = [op |-> "GetSkeletalMeshBoneLocations", Comp |-> Comp,
                          LODIndex |-> 0, Prior |-> BoneLocations,
                          lodRead |-> {}, prev |-> PrevCall]
           /\ samRet' = out.ret
           /\ BoneLocations' = out.BoneLocations
           /\ BoneNames' = out.BoneNames
    /\ UNCHANGED <<ENGINE_MAJOR_VERSION, samComp, VertexPositions>>
    /\ UNCHANGED OthersThanSam

InitSampler ==
    /\ ENGINE_MAJOR_VERSION \in {4, 5}
    /\ samComp \in SkeletalComps \cup
                   (IF ENGINE_MAJOR_VERSION = 4 THEN StaticCompsUE4
                    ELSE StaticCompsUE5)
    /\ SamOutputsFresh
    /\ OccIdle
    /\ FaceIdle
    /\ BoxIdle
    /\ BatchIdle
    /\ ConvIdle
    /\ InsideIdle
    /\ GearIdle
    /\ MeshOpIdle
    /\ AnnIdle

NextSampler ==
    \/ CallGetStaticMeshVertexLocations
    \/ CallGetSkeletalMeshVertexLocationsByLODIndex
    \/ CallGetSkeletalMeshBoneLocations

SpecSampler == InitSampler /\ [][NextSampler]_vars

\* A caller that reads the skeleton of one skeletal mesh component again and
\* again within a frame (the pose does not change between the calls).
InitBones ==
    /\ ENGINE_MAJOR_VERSION = 5
    /\ samComp \in SkeletalComps
    /\ SamOutputsFresh
    /\ OccIdle
    /\ FaceIdle
    /\ BoxIdle
    /\ BatchIdle
    /\ ConvIdle
    /\ InsideIdle
    /\ GearIdle
    /\ MeshOpIdle
    /\ AnnIdle

NextBones == CallGetSkeletalMeshBoneLocations

SpecBones == InitBones /\ [][NextBones]_vars

-----------------------------------------------------------------------------
(* GetSkeletalMeshValidFaceCentersByLODIndex, in the two plugins *)

MaxTriangles == 2       \* most complete index triples of an index buffer
MaxTrailing == 2        \* most indices behind the last complete triple

Plugins == {"XRFeitoriaUnreal", "XRFeitoriaGear"}

Sub3(a, b) == <<a[1] - b[1], a[2] - b[2], a[3] - b[3]>>
\* FVector::CrossProduct
CrossProduct(a, b) ==
    <<a[2] * b[3] - a[3] * b[2], a[3] * b[1] - a[1] * b[3],
      a[1] * b[2] - a[2] * b[1]>>
\* FVector::DotProduct
DotProduct(a, b) == a[1] * b[1] + a[2] * b[2] + a[3] * b[3]
\* FRotator::RotateVector, for a rotator of quarter turns of yaw
RotateVector(ActorRotator, v) == RotateYaw(ActorRotator, v)
ActorRotators == 0..2
CameraForwards == {<<1, 0, 0>>, <<0, 0, 1>>, <<0, 0, -1>>}

\* (p1 + p2 + p3) / 3.0; the coordinates of the vertices are multiples of 3.
CenterOf(p1, p2, p3) ==
    <<(p1[1] + p2[1] + p3[1]) \div 3, (p1[2] + p2[2] + p3[2]) \div 3,
      (p1[3] + p2[3] + p3[3]) \div 3>>

\* The skinned vertices of the one LOD of the meshes whose faces are sampled,
\* and index buffers over them (0-based indices): up to MaxTriangles triples
\* and up to MaxTrailing indices more.
FaceVertices == <<<<0, 0, 0>>, <<3, 0, 0>>, <<0, 3, 0>>, <<0, 0, 3>>>>
IndexTriples == {<<0, 1, 2>>, <<0, 2, 1>>, <<0, 1, 3>>, <<1, 2, 3>>}
TrailingIndices == {SubSeq(<<0, 2, 1>>, 1, n) : n \in 0..MaxTrailing}
IndexBuffers ==
    UNION {{Flatten(ts) \o tr : ts \in [1..n -> IndexTriples],
                                tr \in TrailingIndices} : n \in 0..MaxTriangles}

\* A USkeletalMeshComponent* with one LOD; FaceIndices is what
\* MultiSizeIndexContainer.GetIndexBuffer gives for that LOD.
FaceComps ==
    [kind : {"skeletal"}, valid : {TRUE},
     RenderData : {[LODs |-> <<FaceVertices>>]}, Bones : {<<>>},
     Transform : Transforms, FaceIndices : IndexBuffers]

\* The test on check = DotProduct(CameraForward, normal) that admits a
\* center: check < 0 in XRFeitoriaUnreal, check > 0 in XRFeitoriaGear.
CheckAdmits(Plugin, check) ==
    IF Plugin = "XRFeitoriaGear" THEN check > 0 ELSE check < 0

\* The loop for (int i = 0; i < FaceIndices.Num() - 2; i += 3), from i on.
RECURSIVE FaceLoop(_, _, _, _, _, _)
FaceLoop(Plugin, ActorRotator, CameraForward, Vertices, FaceIndices, idx) ==
    IF ~(idx < Len(FaceIndices) - 2) THEN <<>>
    ELSE LET p1 == Vertices[FaceIndices[idx + 1] + 1]
             p2 == Vertices[FaceIndices[idx + 2] + 1]
             p3 == Vertices[FaceIndices[idx + 3] + 1]
             center == CenterOf(p1, p2, p3)
             e1 == Sub3(p2, p1)
             e2 == Sub3(p1, p3)
             normal == RotateVector(ActorRotator, CrossProduct(e2, e1))
             check == DotProduct(CameraForward, normal)
         IN  (IF CheckAdmits(Plugin, check) THEN <<center>> ELSE <<>>)
               \o FaceLoop(Plugin, ActorRotator, CameraForward, Vertices,
                           FaceIndices, idx + 3)

FaceResult(ret, centers) == [ret |-> ret, Centers |-> centers]

\* The set of outcomes. Centers is emptied first; the vertices are sampled
\* into a local array; LODRenderData[LODIndex] is then read once more for the
\* index buffer (outside the array: the process dies, or an arbitrary buffer
\* is found, here an empty one).
GetSkeletalMeshValidFaceCentersByLODIndex(Plugin, ActorRotator, CameraForward, Comp, LODIndex, Prior) ==
    UNION {
      IF o.ret = Crashed THEN {FaceResult(Crashed, <<>>)}
      ELSE IF o.ret = RetFalse THEN {FaceResult(RetFalse, <<>>)}
      ELSE IF LODIndex \in 0..(Len(Comp.RenderData.LODs) - 1)
           THEN {FaceResult(RetTrue,
                     FaceLoop(Plugin, ActorRotator, CameraForward,
                              o.VertexPositions, Comp.FaceIndices, 0))}
           ELSE {FaceResult(Crashed, <<>>), FaceResult(RetTrue, <<>>)} :
      o \in GetSkeletalMeshVertexLocationsByLODIndex(Comp, LODIndex, <<>>)}

\* The pins of one call.
FaceInputs ==
    [op : {"pins"}, Plugin : Plugins, ActorRotator : ActorRotators,
     CameraForward : CameraForwards, Comp : FaceComps \cup {NULL},
     LODIndex : 0..1]

CallGetSkeletalMeshValidFaceCentersByLODIndex ==
    /\ faceCall.op = "pins"
    /\ \E out \in GetSkeletalMeshValidFaceCentersByLODIndex(
                      faceCall.Plugin, faceCall.ActorRotator,
                      faceCall.CameraForward, faceCall.Comp, faceCall.LODIndex,
                      Centers) :
         /\ faceCall' = [faceCall EXCEPT
                            !.op = "GetSkeletalMeshValidFaceCentersByLODIndex"]
         /\ faceRet' = out.ret
         /\ Centers' = out.Centers
    /\ UNCHANGED OthersThanFace

\* What the caller's Centers array can hold before the call.
StaleCenters == {<<>>, <<<<99, 99, 99>>>>}

InitFaceCenters ==
    /\ faceCall \in FaceInputs
    /\ Centers \in StaleCenters
    /\ faceRet = NotCalled
    /\ OccIdle
    /\ SamIdle
    /\ BoxIdle
    /\ BatchIdle
    /\ ConvIdle
    /\ InsideIdle
    /\ GearIdle
    /\ MeshOpIdle
    /\ AnnIdle

NextFaceCenters == CallGetSkeletalMeshValidFaceCentersByLODIndex

SpecFaceCenters == InitFaceCenters /\ [][NextFaceCenters]_vars

-----------------------------------------------------------------------------
(* DetectInterOcclusionVertices *)

\* What UKismetSystemLibrary::LineTraceSingle answers, one answer per vertex
\* in vertex order: no blocking hit, or a blocking hit of an actor at a
\* location.
SceneAnswers(Vertices) ==
    LET Answer == [bIsHit : BOOLEAN, Actor : ActorNames, Offset : SceneHitOffsets]
        Ray(i, a) ==
            IF a.bIsHit
            THEN [bIsHit |-> TRUE,
                  HitResult |-> FHitResult(a.Actor, Add3(Vertices[i], a.Offset),
                                           Vertices[i])]
            ELSE [bIsHit |-> FALSE, HitResult |-> NoHitResult(Vertices[i])]
    IN  {[i \in 1..Len(Vertices) |-> Ray(i, f[i])] :
             f \in [1..Len(Vertices) -> Answer]}

CountOf(labels, l) == Cardinality({i \in 1..Len(labels) : labels[i] = l})

\* Line 495: the threshold handed to the classifier.
ThicknessUsed(MeshThickness) == DefaultMeshThickness

\* Lines 478-498: one label per vertex, in vertex order.
TraceAndClassify(hits, MeshName, MeshThickness) ==
    [i \in 1..Len(hits) |->
        CHOOSE o \in GetOcclusionFromHitResult(
                         hits[i].HitResult, MeshName,
                         ThicknessUsed(MeshThickness), hits[i].bIsHit) : TRUE]

\* Lines 478-521 for a camera that can be read: the caller's outputs after
\* the call. The labels are added to what the array holds; the counts run
\* over the whole array.
DetectInterOcclusionVerticesBody(hits, MeshName, Prior, MeshThickness) ==
    LET Labels == Prior \o TraceAndClassify(hits, MeshName, MeshThickness)
        Num == Len(Labels)
    IN  [ret |-> RetTrue,
         VerticesOcclusion |-> Labels,
         non_occlusion_rate |-> FloatDiv(CountOf(Labels, NonOcclusion), Num),
         self_occlusion_rate |-> FloatDiv(CountOf(Labels, SelfOcclusion), Num),
         inter_occlusion_rate |-> FloatDiv(CountOf(Labels, InterOcclusion), Num),
         rays |-> Len(hits)]

\* The outcomes of the call. Camera->GetWorld() on a null camera is a read
\* through a null pointer: the process dies, or the call runs on.
DetectInterOcclusionVertices(hits, Camera, MeshName, Prior, Rates, MeshThickness) ==
    LET Ran == DetectInterOcclusionVerticesBody(hits, MeshName, Prior, MeshThickness)
        Died == [ret |-> Crashed,
                 VerticesOcclusion |-> Prior,
                 non_occlusion_rate |-> Rates[1],
                 self_occlusion_rate |-> Rates[2],
                 inter_occlusion_rate |-> Rates[3],
                 rays |-> 0]
    IN  IF Camera = NULL THEN {Died, Ran} ELSE {Ran}


Alive == occRet # Crashed

\* A caller (a Blueprint graph) with its camera, mesh name and MeshThickness
\* pins.
OccCallers == [Camera : Cameras, MeshName : ActorNames, MeshThickness : BatchThicknesses]

\* The caller calls DetectInterOcclusionVertices with its label array and its
\* floats.
CallDetectInterOcclusionVertices ==
    /\ Alive
    /\ Len(VerticesOcclusion) <= MaxStale
    /\ \E n \in 0..MaxPoints :
         \E hits \in SceneAnswers(PointSet(n)) :
           \E out \in DetectInterOcclusionVertices(
                          hits, occCaller.Camera, occCaller.MeshName,
                          VerticesOcclusion,
                          <<non_occlusion_rate, self_occlusion_rate,
                            inter_occlusion_rate>>, occCaller.MeshThickness) :
             /\ occCall' = [op |-> "DetectInterOcclusionVertices",
                            Vertices |-> PointSet(n),
                            Prior |-> VerticesOcclusion,
                            PriorRates |-> <<non_occlusion_rate, self_occlusion_rate,
                                             inter_occlusion_rate>>,
                            hits |-> hits]
             /\ occRet' = out.ret
             /\ VerticesOcclusion' = out.VerticesOcclusion
             /\ non_occlusion_rate' = out.non_occlusion_rate
             /\ self_occlusion_rate' = out.self_occlusion_rate
             /\ inter_occlusion_rate' = out.inter_occlusion_rate
             /\ rayCount' = out.rays
    /\ UNCHANGED occCaller
    /\ UNCHANGED OthersThanOcc

\* DetectInterOcclusionSkeleton, lines 613-640. MeshName is
\* Comp->GetOwner()->GetFName(). Comp->GetOwner() on a null component and
\* Camera->GetActorLocation() on a null camera read through a null pointer:
\* the process dies there, or the call runs on (the values read are not
\* used before the next call that checks or dereferences the pointer).
DetectInterOcclusionSkeleton(Comp, Camera, MeshName, Prior, MeshThickness) ==
    LET Died == [ret |-> Crashed,
                 BoneLocations |-> Prior.BoneLocations,
                 BoneNames |-> Prior.BoneNames,
                 VerticesOcclusion |-> Prior.VerticesOcclusion,
                 non_occlusion_rate |-> Prior.Rates[1],
                 self_occlusion_rate |-> Prior.Rates[2],
                 inter_occlusion_rate |-> Prior.Rates[3],
                 rays |-> 0, hits |-> <<>>]
        RanOn ==
            UNION {
              IF b.ret # RetTrue
              THEN {[Died EXCEPT !.ret = RetFalse]}
              ELSE UNION {
                     {[ret |-> d.ret,
                       BoneLocations |-> b.BoneLocations,
                       BoneNames |-> b.BoneNames,
                       VerticesOcclusion |-> d.VerticesOcclusion,
                       non_occlusion_rate |-> d.non_occlusion_rate,
                       self_occlusion_rate |-> d.self_occlusion_rate,
                       inter_occlusion_rate |-> d.inter_occlusion_rate,
                       rays |-> d.rays, hits |-> hits] :
                        d \in DetectInterOcclusionVertices(
                                  hits, Camera, MeshName, Prior.VerticesOcclusion,
                                  Prior.Rates, MeshThickness)} :
                       hits \in SceneAnswers(b.BoneLocations)} :
              b \in GetSkeletalMeshBoneLocations(Comp, Prior.BoneLocations,
                                                 Prior.BoneNames)}
    IN  IF Comp = NULL \/ Camera = NULL THEN {Died} \cup RanOn ELSE RanOn

\* The caller calls DetectInterOcclusionSkeleton with its arrays and floats.
CallDetectInterOcclusionSkeleton ==
    /\ Alive
    /\ Len(VerticesOcclusion) <= MaxStale
    /\ \E Comp \in {NULL, samComp} :
         \E out \in DetectInterOcclusionSkeleton(
                        Comp, occCaller.Camera, occCaller.MeshName,
                        [BoneLocations |-> BoneLocations, BoneNames |-> BoneNames,
                         VerticesOcclusion |-> VerticesOcclusion,
                         Rates |-> <<non_occlusion_rate, self_occlusion_rate,
                                     inter_occlusion_rate>>],
                        occCaller.MeshThickness) :
           /\ occCall' = [op |-> "DetectInterOcclusionSkeleton",
                          Comp |-> Comp,
                          Vertices |-> IF out.ret = RetTrue THEN out.BoneLocations
                                       ELSE <<>>,
                          Prior |-> VerticesOcclusion,
                          PriorRates |-> <<non_occlusion_rate, self_occlusion_rate,
                                           inter_occlusion_rate>>,
                          hits |-> out.hits]
           /\ occRet' = out.ret
           /\ BoneLocations' = out.BoneLocations
           /\ BoneNames' = out.BoneNames
           /\ VerticesOcclusion' = out.VerticesOcclusion
           /\ non_occlusion_rate' = out.non_occlusion_rate
           /\ self_occlusion_rate' = out.self_occlusion_rate
           /\ inter_occlusion_rate' = out.inter_occlusion_rate
           /\ rayCount' = out.rays
    /\ UNCHANGED <<occCaller, ENGINE_MAJOR_VERSION, samComp, VertexPositions,
                   samCall, samRet>>
    /\ UNCHANGED OthersThanOccSam

\* The caller takes a new, empty label array and new floats.
CallerNewOutputs ==
    /\ Alive
    /\ VerticesOcclusion # <<>>
    /\ VerticesOcclusion' = <<>>
    /\ non_occlusion_rate' = Unset
    /\ self_occlusion_rate' = Unset
    /\ inter_occlusion_rate' = Unset
    /\ occCall' = [op |-> NotCalled]
    /\ occRet' = NotCalled
    /\ rayCount' = 0
    /\ UNCHANGED occCaller
    /\ UNCHANGED OthersThanOcc

\* The skeletal mesh components whose skeleton a caller classifies.
SkeletonComps ==
    {c \in SkeletalComps : c.valid /\ c.RenderData = [LODs |-> <<>>]}

InitOcclusion ==
    /\ OccOutputsFresh
    /\ occCaller \in OccCallers
    /\ occCall = [op |-> NotCalled]
    /\ ENGINE_MAJOR_VERSION = 5
    /\ samComp \in SkeletonComps
    /\ SamOutputsFresh
    /\ FaceIdle
    /\ BoxIdle
    /\ BatchIdle
    /\ ConvIdle
    /\ InsideIdle
    /\ GearIdle
    /\ MeshOpIdle
    /\ AnnIdle

NextOcclusion ==
    \/ CallDetectInterOcclusionVertices
    \/ CallDetectInterOcclusionSkeleton
    \/ CallerNewOutputs

SpecOcclusion == InitOcclusion /\ [][NextOcclusion]_vars

-----------------------------------------------------------------------------
(* GetOcclusionFromHitResult as a Blueprint node: the inputs are on the pins, *)
(* the node is evaluated once.                                               *)

ClassifyInputs ==
    [op : {"pins"}, HitResult : HitResults, MeshName : ActorNames,
     MeshThickness : Thicknesses, bIsHit : BOOLEAN]

CallGetOcclusionFromHitResult ==
    /\ occCall.op = "pins"
    /\ occCall' = [occCall EXCEPT !.op = "GetOcclusionFromHitResult"]
    /\ occRet' \in GetOcclusionFromHitResult(
                       occCall.HitResult, occCall.MeshName,
                       occCall.MeshThickness, occCall.bIsHit)
    /\ UNCHANGED <<VerticesOcclusion, non_occlusion_rate, self_occlusion_rate,
                   inter_occlusion_rate, occCaller, rayCount>>
    /\ UNCHANGED OthersThanOcc

InitClassify ==
    /\ OccOutputsFresh
    /\ occCaller = [Camera |-> TheCamera, MeshName |-> "Body",
                    MeshThickness |-> DefaultMeshThickness]
    /\ occCall \in ClassifyInputs
    /\ SamIdle
    /\ FaceIdle
    /\ BoxIdle
    /\ BatchIdle
    /\ ConvIdle
    /\ InsideIdle
    /\ GearIdle
    /\ MeshOpIdle
    /\ AnnIdle

NextClassify == CallGetOcclusionFromHitResult

SpecClassify == InitClassify /\ [][NextClassify]_vars

-----------------------------------------------------------------------------
(* DivideSceneViaBoxTrace: the sweep of the four quadrants around a seed,    *)
(* one action per iteration of its while (true) loop.                        *)

MaxExtendSteps == 13    \* widest border, in grid steps from the seed
MaxGap == 3             \* widest gap of a scene, in grid steps
MaxBoxHalfSize == 2     \* largest BoxHalfSize (= DeltaStep) a caller passes

CoreSteps == 10         \* const bool bIsAroundOrigin = i < 10 && j < 10
NotHitLimit_Three == 2 + 1
NotHitLimit == 2        \* if (NotHitCount > 2), if (NotHitRowCount > 2)

Abs(n) == IF n < 0 THEN -n ELSE n

GroundZ == 0            \* height of the ground plane of the scenes
CeilingZ == 25          \* where the upward ray of the inside probe hits
StartZ == 20            \* StartPoint.Z of the callers
EndZ == -20             \* HitEndZ of the callers

\* The scenes, as the sweep sees them from its seed: what the three probes
\* answer at the grid point gx, gy steps from the seed.
\*   Void       nothing anywhere
\*   Ground     a ground plane everywhere, also beyond any border
\*   Gap        a ground plane without the strip at <= |gy| < at + width
\*   Patch      a ground plane over |gx|, |gy| <= radius only
\*   Solid      a ground plane, and a rock around the seed that the point is
\*              inside of (the box sweep starts inside it and hits it)
\*   InsideOnly nothing for the box sweep (HitEndZ above what the downward
\*              ray finds), but the inside probe succeeds at (1, 1)
Scenes ==
    {[kind |-> "Void"], [kind |-> "Ground"], [kind |-> "Solid"],
     [kind |-> "InsideOnly"]}
    \cup [kind : {"Gap"}, at : {3, CoreSteps}, width : 1..MaxGap]
    \cup [kind : {"Patch"}, radius : {0, CoreSteps + 1}]

\* World->SweepSingleByChannel with a box. For a swept shape FHitResult::
\* Location is where the shape's center is when it touches: half a box above
\* the surface.
SweepSingleByChannel(Scene, gx, gy, Start, BoxHalfSize) ==
    LET ground ==
            CASE Scene.kind = "Void" -> FALSE
              [] Scene.kind = "Ground" -> TRUE
              [] Scene.kind = "Solid" -> TRUE
              [] Scene.kind = "InsideOnly" -> FALSE
              [] Scene.kind = "Gap" ->
                     ~(Scene.at <= Abs(gy) /\ Abs(gy) < Scene.at + Scene.width)
              [] Scene.kind = "Patch" ->
                     Abs(gx) <= Scene.radius /\ Abs(gy) <= Scene.radius
        rock == Scene.kind = "Solid" /\ Abs(gx) <= 1 /\ Abs(gy) <= 1
    IN  IF rock
        THEN [bIsHit |-> TRUE, Actor |-> "Rock", Location |-> Start]
        ELSE IF ground
        THEN [bIsHit |-> TRUE, Actor |-> "Ground",
              Location |-> <<Start[1], Start[2], GroundZ + BoxHalfSize>>]
        ELSE [bIsHit |-> FALSE, Actor |-> NoActor, Location |-> ZeroVector]

\* TestInside: an upward and a downward ray that hit the same actor;
\* UpHitResult is the upward hit.
TestInside(Scene, gx, gy, LocStart) ==
    IF \/ Scene.kind = "Solid" /\ Abs(gx) <= 1 /\ Abs(gy) <= 1
       \/ Scene.kind = "InsideOnly" /\ Abs(gx) = 1 /\ Abs(gy) = 1
    THEN [bIsInside |-> TRUE, Actor |-> "Rock",
          Location |-> <<LocStart[1], LocStart[2], CeilingZ>>]
    ELSE [bIsInside |-> FALSE, Actor |-> NoActor, Location |-> ZeroVector]

\* TestVisible: no blocking hit on the ray from the point to the seed.
TestVisible(Scene, gx, gy) ==
    ~(Scene.kind = "Solid" /\ (Abs(gx) > 1 \/ Abs(gy) > 1))

\* The rectangular borders a caller passes, relative to the seed, for a step
\* of BoxHalfSize: symmetric ones of 2 and MaxExtendSteps - 1 steps (a grid
\* point lies on them), of MaxExtendSteps steps less one unit, one that is
\* narrow on one side, and one that begins one step off the seed.
Borders(s) ==
    {[MaxXExtend |-> e, MinXExtend |-> -e, MaxYExtend |-> e, MinYExtend |-> -e] :
        e \in {2 * s, (MaxExtendSteps - 1) * s, MaxExtendSteps * s - 1}}
    \cup {[MaxXExtend |-> MaxExtendSteps * s, MinXExtend |-> -s,
           MaxYExtend |-> 3 * s, MinYExtend |-> -MaxExtendSteps * s],
          [MaxXExtend |-> 4 * s, MinXExtend |-> -4 * s,
           MaxYExtend |-> MaxExtendSteps * s, MinYExtend |-> s]}

StartPoints == {<<0, 0, StartZ>>, <<40, -20, StartZ>>}

\* The calls: the parameters of DivideSceneViaBoxTrace and the scene of the
\* world. Seeds off the world's origin, steps other than 1 and the two flags
\* are varied on the plain scenes.
BoxCalls ==
    {c \in [op : {"pins"}, EnableTrace : BOOLEAN,
            BoxHalfSize : 1..MaxBoxHalfSize, StartPoint : StartPoints,
            UseRandomStartPointXAndY : BOOLEAN,
            Border : UNION {Borders(s) : s \in 1..MaxBoxHalfSize},
            HitEndZ : {EndZ}, Scene : Scenes, StartLocation : StartPoints] :
        /\ c.Border \in Borders(c.BoxHalfSize)
        /\ c.StartLocation = c.StartPoint
        /\ \/ c.Scene.kind \in {"Void", "Ground"}
           \/ /\ c.EnableTrace /\ ~c.UseRandomStartPointXAndY
              /\ c.StartPoint = <<0, 0, StartZ>>
              /\ c.BoxHalfSize = 1}

\* The first three rows of the table.
Preamble_NoValuesRow(BoxHalfSize, DeltaStep, Origin, HitEndZ) ==
    <<[row |-> "columns", text |-> "actor_name,x,y,z,materials,visible"],
      [row |-> "metadata_names",
       text |-> "BoxHalfSize,DeltaStep,CenterX,CenterY,CenterZ,HitEndZ"]>>

Preamble(BoxHalfSize, DeltaStep, Origin, HitEndZ) ==
    <<[row |-> "columns", text |-> "actor_name,x,y,z,materials,visible"],
      [row |-> "metadata_names",
       text |-> "BoxHalfSize,DeltaStep,CenterX,CenterY,CenterZ,HitEndZ"],
      [row |-> "metadata", BoxHalfSize |-> BoxHalfSize, DeltaStep |-> DeltaStep,
       CenterX |-> Origin[1], CenterY |-> Origin[2], CenterZ |-> Origin[3],
       HitEndZ |-> HitEndZ]>>

CellRow_RawZ(ActorName, HitLoc, BoxHalfSize, bIsVisible) ==
    [row |-> "cell", actor_name |-> ActorName, x |-> HitLoc[1], y |-> HitLoc[2],
     z |-> HitLoc[3], materials |-> "", visible |-> IF bIsVisible THEN 1 ELSE 0]

\* "%s,%f,%f,%f,%s,%d\n" of a hit
CellRow(ActorName, HitLoc, BoxHalfSize, bIsVisible) ==
    [row |-> "cell", actor_name |-> ActorName, x |-> HitLoc[1], y |-> HitLoc[2],
     z |-> HitLoc[3] - BoxHalfSize, materials |-> "",
     visible |-> IF bIsVisible THEN 1 ELSE 0]

\* Where rand() can put the seed: multiples of BoxHalfSize.
RandomStarts(BoxHalfSize, Z) ==
    {<<x * BoxHalfSize, y * BoxHalfSize, Z>> : x, y \in {0, 3}}

\* The call up to the sweep loop. With UseRandomStartPointXAndY the seed is
\* drawn until the box sweep hits below it; where it never hits, the drawing
\* never ends. Without EnableTrace the call returns before it makes a table.
EnterDivideSceneViaBoxTrace ==
    /\ boxCall.op = "pins"
    /\ LET c == boxCall
           seedHit ==
               SweepSingleByChannel(c.Scene, 0, 0, c.StartPoint, c.BoxHalfSize).bIsHit
       IN  IF c.UseRandomStartPointXAndY /\ ~seedHit
           THEN /\ boxCall' = [c EXCEPT !.op = "DivideSceneViaBoxTrace"]
                /\ boxPc' = "PickingStart"
                /\ UNCHANGED HitBoxesInfo
           ELSE \E StartLocation \in
                      IF c.UseRandomStartPointXAndY
                      THEN RandomStarts(c.BoxHalfSize, c.StartPoint[3])
                      ELSE {c.StartPoint} :
                  /\ boxCall' = [c EXCEPT !.op = "DivideSceneViaBoxTrace",
                                          !.StartLocation = StartLocation]
                  /\ IF c.EnableTrace
                     THEN /\ boxPc' = "Sweeping"
                          /\ HitBoxesInfo' =
                                 Preamble(c.BoxHalfSize, c.BoxHalfSize,
                                          StartLocation, c.HitEndZ)
                     ELSE /\ boxPc' = "Returned"
                          /\ UNCHANGED HitBoxesInfo
    /\ UNCHANGED <<SignX, SignY, gridI, gridJ, NotHitCount, NotHitRowCount,
                   boxStep, stepCount, savedFile>>
    /\ UNCHANGED OthersThanBox

\* What one iteration of the loop computes before it branches (lines 829-845).
Origin == boxCall.StartLocation
DeltaStep == boxCall.BoxHalfSize
Start ==
    <<Origin[1] + DeltaStep * gridI * SignX, Origin[2] + DeltaStep * gridJ * SignY,
      Origin[3]>>
bIsWithinBorder ==
    /\ boxCall.Border.MinXExtend + Origin[1] < Start[1]
    /\ Start[1] < boxCall.Border.MaxXExtend + Origin[1]
    /\ boxCall.Border.MinYExtend + Origin[2] < Start[2]
    /\ Start[2] < boxCall.Border.MaxYExtend + Origin[2]
bIsAroundOrigin_EitherAxis == gridI < CoreSteps \/ gridJ < CoreSteps
bIsAroundOrigin_Wider == gridI < CoreSteps + 1 /\ gridJ < CoreSteps + 1
bIsAroundOrigin == gridI < CoreSteps /\ gridJ < CoreSteps
HitResult ==
    SweepSingleByChannel(boxCall.Scene, gridI * SignX, gridJ * SignY, Start,
                         boxCall.BoxHalfSize)
UpHitResult == TestInside(boxCall.Scene, gridI * SignX, gridJ * SignY, Start)
bIsHit == HitResult.bIsHit
bIsInside == UpHitResult.bIsInside
bIsVisible == TestVisible(boxCall.Scene, gridI * SignX, gridJ * SignY)

\* The loop is at the head of an iteration. (i and j stay far below GridCap:
\* the border ends MaxExtendSteps steps from the seed at the latest.)
GridCap == 2 * MaxExtendSteps
InLoop == boxPc = "Sweeping" /\ gridI <= GridCap /\ gridJ <= GridCap

\* The hit records whose actor the hit branch reads: HitRes for the table
\* row (lines 854-857) and HitResult for the message (line 883).
RecordsRead == {IF bIsInside THEN "UpHitResult" ELSE "HitResult", "HitResult"}

\* The iteration as the claims look back at it.
StepRecord(kind) ==
    [kind |-> kind, SignX |-> SignX, SignY |-> SignY, i |-> gridI, j |-> gridJ,
     bIsHit |-> bIsHit, bIsInside |-> bIsInside,
     bIsWithinBorder |-> bIsWithinBorder, bIsAroundOrigin |-> bIsAroundOrigin,
     NotHitCount |-> NotHitCount, NotHitRowCount |-> NotHitRowCount,
     rows |-> Len(HitBoxesInfo), steps |-> stepCount + 1, Start |-> Start,
     HitResult |-> HitResult, UpHitResult |-> UpHitResult,
     read |-> IF kind = "Hit" THEN RecordsRead ELSE {}]

\* if ((bIsHit || bIsInside) && bIsWithinBorder), lines 847-885. The debug
\* message of line 883 reads HitResult.GetActor()->GetName(), the box
\* sweep's hit, also when only the inside probe succeeded: GetActor() is
\* null then, and the process dies or runs on.
SweepHit ==
    /\ InLoop
    /\ (bIsHit \/ bIsInside) /\ bIsWithinBorder
    /\ NotHitCount' = 0
    /\ NotHitRowCount' = 0
    /\ LET HitRes == IF bIsInside THEN UpHitResult ELSE HitResult
       IN  HitBoxesInfo' =
               Append(HitBoxesInfo,
                      CellRow(HitRes.Actor, HitRes.Location, boxCall.BoxHalfSize,
                              bIsVisible))
    /\ boxStep' = StepRecord("Hit")
    /\ stepCount' = stepCount + 1
    /\ \/ /\ boxPc' = "Sweeping"
          /\ gridJ' = gridJ + 1
       \/ /\ ~bIsHit
          /\ boxPc' = Crashed
          /\ UNCHANGED gridJ
    /\ UNCHANGED <<boxCall, SignX, SignY, gridI, savedFile>>
    /\ UNCHANGED OthersThanBox

\* else if (bIsAroundOrigin && bIsWithinBorder), lines 886-889, then j++.
SweepPass ==
    /\ InLoop
    /\ ~((bIsHit \/ bIsInside) /\ bIsWithinBorder)
    /\ bIsAroundOrigin /\ bIsWithinBorder
    /\ gridJ' = gridJ + 1
    /\ boxStep' = StepRecord("Pass")
    /\ stepCount' = stepCount + 1
    /\ UNCHANGED <<boxCall, boxPc, SignX, SignY, gridI, NotHitCount,
                   NotHitRowCount, HitBoxesInfo, savedFile>>
    /\ UNCHANGED OthersThanBox

IsMiss_CountsPass == ~((bIsHit \/ bIsInside) /\ bIsWithinBorder)

\* The guard of the else branch, lines 890-906.
IsMiss ==
    /\ ~((bIsHit \/ bIsInside) /\ bIsWithinBorder)
    /\ ~(bIsAroundOrigin /\ bIsWithinBorder)

\* NotHitCount++ without reaching the limit, then j++.
SweepMiss ==
    /\ InLoop
    /\ IsMiss
    /\ ~(NotHitCount + 1 > NotHitLimit)
    /\ NotHitCount' = NotHitCount + 1
    /\ gridJ' = gridJ + 1
    /\ boxStep' = StepRecord("Miss")
    /\ stepCount' = stepCount + 1
    /\ UNCHANGED <<boxCall, boxPc, SignX, SignY, gridI, NotHitRowCount,
                   HitBoxesInfo, savedFile>>
    /\ UNCHANGED OthersThanBox

\* NotHitCount over the limit, NotHitRowCount not: i++, j = 0, continue.
SweepCloseRow ==
    /\ InLoop
    /\ IsMiss
    /\ NotHitCount + 1 > NotHitLimit
    /\ ~(NotHitRowCount + 1 > NotHitLimit)
    /\ NotHitCount' = 0
    /\ NotHitRowCount' = NotHitRowCount + 1
    /\ gridI' = gridI + 1
    /\ gridJ' = 0
    /\ boxStep' = StepRecord("CloseRow")
    /\ stepCount' = stepCount + 1
    /\ UNCHANGED <<boxCall, boxPc, SignX, SignY, HitBoxesInfo, savedFile>>
    /\ UNCHANGED OthersThanBox

\* FFileHelper::SaveStringToFile can fail; the failure is only logged.
SaveTextToFile(StringToWrite) ==
    {[written |-> TRUE, text |-> StringToWrite], [written |-> FALSE]}

SweepEndQuadrant_KeepsRowCount ==
    /\ InLoop
    /\ IsMiss
    /\ NotHitCount + 1 > NotHitLimit
    /\ NotHitRowCount + 1 > NotHitLimit
    /\ boxStep' = StepRecord("EndQuadrant")
    /\ gridI' = 0 /\ gridJ' = 0
    /\ NotHitCount' = 0 /\ NotHitRowCount' = NotHitRowCount
    /\ stepCount' = 0
    /\ IF SignX = -1 /\ SignY = -1
       THEN /\ boxPc' = "Done"
            /\ savedFile' \in SaveTextToFile(HitBoxesInfo)
            /\ UNCHANGED <<SignX, SignY>>
       ELSE /\ SignY' = -SignY
            /\ SignX' = IF SignY = -1 THEN -1 ELSE SignX
            /\ UNCHANGED <<boxPc, savedFile>>
    /\ UNCHANGED <<boxCall, HitBoxesInfo>>
    /\ UNCHANGED OthersThanBox

\* Both counters over the limit: break. The for loops go on to the next
\* quadrant, (1,1), (1,-1), (-1,1), (-1,-1), with new i, j and counters;
\* after the last one the table is saved and the call returns.
SweepEndQuadrant ==
    /\ InLoop
    /\ IsMiss
    /\ NotHitCount + 1 > NotHitLimit
    /\ NotHitRowCount + 1 > NotHitLimit
    /\ boxStep' = StepRecord("EndQuadrant")
    /\ gridI' = 0 /\ gridJ' = 0
    /\ NotHitCount' = 0 /\ NotHitRowCount' = 0
    /\ stepCount' = 0
    /\ IF SignX = -1 /\ SignY = -1
       THEN /\ boxPc' = "Done"
            /\ savedFile' \in SaveTextToFile(HitBoxesInfo)
            /\ UNCHANGED <<SignX, SignY>>
       ELSE /\ SignY' = -SignY
            /\ SignX' = IF SignY = -1 THEN -1 ELSE SignX
            /\ UNCHANGED <<boxPc, savedFile>>
    /\ UNCHANGED <<boxCall, HitBoxesInfo>>
    /\ UNCHANGED OthersThanBox

InitBoxTrace ==
    /\ boxCall \in BoxCalls
    /\ boxPc = "Called"
    /\ SweepNotStarted
    /\ OccIdle
    /\ SamIdle
    /\ FaceIdle
    /\ BatchIdle
    /\ ConvIdle
    /\ InsideIdle
    /\ GearIdle
    /\ MeshOpIdle
    /\ AnnIdle

NextBoxTrace ==
    \/ EnterDivideSceneViaBoxTrace
    \/ SweepHit
    \/ SweepPass
    \/ SweepMiss
    \/ SweepCloseRow
    \/ SweepEndQuadrant

SpecBoxTrace == InitBoxTrace /\ [][NextBoxTrace]_vars

\* The loop is sequential code: an iteration that can be taken is taken.
FairBoxTrace == SpecBoxTrace /\ WF_vars(NextBoxTrace)

-----------------------------------------------------------------------------
(* DivideSceneViaBoxTraceBatch *)

MaxSeeds == 2           \* longest list of seeds
RaiseZ == 2000          \* Point.Z = Point.Z + 2000.0

\* FStrings are sequences of characters. The paths a caller gives: without
\* and with an extension, with two dots, and with a dot in a directory name.
Paths ==
    {<<"o">>, <<"o", ".", "c">>, <<"a", ".", "b", ".", "c">>,
     <<"d", ".", "x", "/", "o">>}

\* The position of the last ch in S, 0 if there is none.
LastIndexOf(S, ch) ==
    LET at == {k \in 1..Len(S) : S[k] = ch}
    IN  IF at = {} THEN 0 ELSE CHOOSE k \in at : \A l \in at : l <= k

\* PathToSaveStem.Split(".", &PathToSaveStem, &PathToSaveSuffix, IgnoreCase,
\* FromEnd), then "." + PathToSaveSuffix if it split.
PathToSaveStem(PathToSaveResults) ==
    LET dot == LastIndexOf(PathToSaveResults, ".")
    IN  IF dot = 0 THEN PathToSaveResults
        ELSE SubSeq(PathToSaveResults, 1, dot - 1)
PathToSaveSuffix(PathToSaveResults) ==
    LET dot == LastIndexOf(PathToSaveResults, ".")
    IN  IF dot = 0 THEN <<>>
        ELSE SubSeq(PathToSaveResults, dot, Len(PathToSaveResults))

\* "%03d"
DecimalDigits == <<"0", "1", "2", "3", "4", "5", "6", "7", "8", "9">>
RECURSIVE DecimalOf(_)
DecimalOf(n) ==
    IF n < 10 THEN <<DecimalDigits[n + 1]>>
    ELSE Append(DecimalOf(n \div 10), DecimalDigits[(n % 10) + 1])
Printf03d(n) == [k \in 1..(3 - Len(DecimalOf(n))) |-> "0"] \o DecimalOf(n)

\* PathToSaveStem + FString::Printf(TEXT("%03d%s"), i+1, *PathToSaveSuffix)
PathToSave(PathToSaveResults, i) ==
    PathToSaveStem(PathToSaveResults) \o Printf03d(i + 1)
        \o PathToSaveSuffix(PathToSaveResults)

BatchSeeds == {<<0, 0, 0>>, <<40, -20, 5>>}
BatchCalls ==
    [op : {"pins"},
     StartPoints : UNION {[1..n -> BatchSeeds] : n \in 0..MaxSeeds},
     EnableTrace : BOOLEAN, BoxHalfSize : {1},
     Border : {[MaxXExtend |-> 2, MinXExtend |-> -2,
                MaxYExtend |-> 2, MinYExtend |-> -2]},
     ZExtend : {20}, PathToSaveResults : Paths,
     Scene : {[kind |-> "Void"], [kind |-> "Ground"], [kind |-> "InsideOnly"],
              [kind |-> "Patch", radius |-> 0]}]

\* The call up to its loop.
EnterDivideSceneViaBoxTraceBatch ==
    /\ batchCall.op = "pins"
    /\ batchCall' = [batchCall EXCEPT !.op = "DivideSceneViaBoxTraceBatch"]
    /\ batchPc' = IF Len(batchCall.StartPoints) = 0 THEN "Returned" ELSE "Looping"
    /\ UNCHANGED <<batchI, batchLog, batchFiles>>
    /\ UNCHANGED OthersThanBatch

\* The arguments of the call of DivideSceneViaBoxTrace for StartPoints[i]
\* (i counted from 0), lines 945-962.
BatchArguments(c, i) ==
    LET Point == c.StartPoints[i + 1]
        PointHitEndZ == Point[3] - c.ZExtend
        Raised == <<Point[1], Point[2], Point[3] + RaiseZ>>
    IN  [op |-> "pins", EnableTrace |-> c.EnableTrace,
         BoxHalfSize |-> c.BoxHalfSize, StartPoint |-> Raised,
         UseRandomStartPointXAndY |-> FALSE, Border |-> c.Border,
         HitEndZ |-> PointHitEndZ, Scene |-> c.Scene, StartLocation |-> Raised]

\* One iteration of the loop, up to the call of DivideSceneViaBoxTrace.
BatchCallDivideSceneViaBoxTrace ==
    /\ batchPc = "Looping"
    /\ boxCall' = BatchArguments(batchCall, batchI)
    /\ boxPc' = "Called"
    /\ batchLog' = Append(batchLog,
                          [call |-> BatchArguments(batchCall, batchI),
                           PathToSave |-> PathToSave(batchCall.PathToSaveResults,
                                                     batchI)])
    /\ batchPc' = "InCall"
    /\ UNCHANGED <<batchCall, batchI, batchFiles>>
    /\ UNCHANGED <<SignX, SignY, gridI, gridJ, NotHitCount, NotHitRowCount,
                   HitBoxesInfo, boxStep, stepCount, savedFile>>
    /\ UNCHANGED OthersThanBoxBatch

\* DivideSceneViaBoxTrace has returned: its locals are gone, its file (if
\* SaveTextToFile wrote it) is at PathToSave; i++, and the loop goes on or
\* the batch returns.
BatchSweepReturned ==
    /\ batchPc = "InCall"
    /\ boxPc \in {"Done", "Returned"}
    /\ batchFiles' =
           batchFiles \cup
               (IF savedFile.written
                THEN {[path |-> batchLog[Len(batchLog)].PathToSave,
                       text |-> savedFile.text]}
                ELSE {})
    /\ batchI' = batchI + 1
    /\ batchPc' = IF batchI + 1 = Len(batchCall.StartPoints)
                  THEN "Returned" ELSE "Looping"
    /\ boxCall' = [op |-> NotCalled]
    /\ boxPc' = NotCalled
    /\ SignX' = 1 /\ SignY' = 1
    /\ gridI' = 0 /\ gridJ' = 0
    /\ NotHitCount' = 0 /\ NotHitRowCount' = 0
    /\ HitBoxesInfo' = <<>>
    /\ boxStep' = [kind |-> NotCalled]
    /\ stepCount' = 0
    /\ savedFile' = [written |-> FALSE]
    /\ UNCHANGED <<batchCall, batchLog>>
    /\ UNCHANGED OthersThanBoxBatch

InitBatch ==
    /\ batchCall \in BatchCalls
    /\ batchPc = "Called"
    /\ batchI = 0
    /\ batchLog = <<>>
    /\ batchFiles = {}
    /\ OccIdle
    /\ SamIdle
    /\ FaceIdle
    /\ BoxIdle
    /\ ConvIdle
    /\ InsideIdle
    /\ GearIdle
    /\ MeshOpIdle
    /\ AnnIdle

NextBatch ==
    \/ EnterDivideSceneViaBoxTraceBatch
    \/ BatchCallDivideSceneViaBoxTrace
    \/ BatchSweepReturned
    \/ EnterDivideSceneViaBoxTrace
    \/ SweepHit
    \/ SweepPass
    \/ SweepMiss
    \/ SweepCloseRow
    \/ SweepEndQuadrant

SpecBatch == InitBatch /\ [][NextBatch]_vars

-----------------------------------------------------------------------------
(* ConvertCoordinateSystem, ConvertUnrealToOpenCV, ConvertOpenCVToUnreal *)
(* The header declares them and the table of unit vectors; their bodies   *)
(* are written after the specification: a remap of position and rotation  *)
(* by the signed unit axes, M^T * T * M on the matrix of the transform.   *)

\* enum class EAxis and UnitVectors, in the order of the enum
EAxis == {"X", "Y", "Z", "Xn", "Yn", "Zn"}
UnitVectorFromAxisEnum(Axis) ==
    CASE Axis = "X" -> <<1, 0, 0>>
      [] Axis = "Y" -> <<0, 1, 0>>
      [] Axis = "Z" -> <<0, 0, 1>>
      [] Axis = "Xn" -> <<-1, 0, 0>>
      [] Axis = "Yn" -> <<0, -1, 0>>
      [] Axis = "Zn" -> <<0, 0, -1>>

\* 3x3 matrices are tuples of rows; vectors are rows (v * M).
Transposed(M) == [i \in 1..3 |-> [j \in 1..3 |-> M[j][i]]]
MatMul(A, B) ==
    [i \in 1..3 |-> [j \in 1..3 |->
        A[i][1] * B[1][j] + A[i][2] * B[2][j] + A[i][3] * B[3][j]]]
VecMul(v, M) ==
    [j \in 1..3 |-> v[1] * M[1][j] + v[2] * M[2][j] + v[3] * M[3][j]]
Determinant(M) == DotProduct(M[1], CrossProduct(M[2], M[3]))

\* The rotations of the poses: the 24 rotations that take axes to axes.
SignedUnits == {UnitVectorFromAxisEnum(a) : a \in EAxis}
AxisRotations ==
    {M \in [1..3 -> SignedUnits] :
        /\ \A i, j \in 1..3 : DotProduct(M[i], M[j]) = (IF i = j THEN 1 ELSE 0)
        /\ Determinant(M) = 1}
MaxScale == 2
PoseTranslations == {<<0, 0, 0>>, <<1, 2, 3>>, <<-4, 0, 5>>}
Poses ==
    [Rotation : AxisRotations, Scale3D : [1..3 -> 1..MaxScale],
     Translation : PoseTranslations]

\* FTransform::ToMatrixWithScale: row i is Scale3D[i] times row i of the
\* rotation; FTransform::SetFromMatrix: the scale is the length of a row (of
\* a row along an axis: the sum of its magnitudes), the rotation the rows
\* divided by it.
ToMatrixWithScale(T) ==
    [i \in 1..3 |-> [j \in 1..3 |-> T.Scale3D[i] * T.Rotation[i][j]]]
RowLength(r) == Abs(r[1]) + Abs(r[2]) + Abs(r[3])
SetFromMatrix(A, Translation) ==
    [Rotation |-> [i \in 1..3 |-> [j \in 1..3 |-> A[i][j] \div RowLength(A[i])]],
     Scale3D |-> [i \in 1..3 |-> RowLength(A[i])],
     Translation |-> Translation]

\* The columns of M12 are the unit vectors of the three axes given.
ConvertCoordinateSystem(Transform, XAxis, YAxis, ZAxis) ==
    LET M12 == Transposed(<<UnitVectorFromAxisEnum(XAxis),
                            UnitVectorFromAxisEnum(YAxis),
                            UnitVectorFromAxisEnum(ZAxis)>>)
    IN  SetFromMatrix(MatMul(MatMul(Transposed(M12), ToMatrixWithScale(Transform)),
                             M12),
                      VecMul(Transform.Translation, M12))

\* Unreal: X front, Y right, Z up. OpenCV: Z front, X right, Y down.
ConvertUnrealToOpenCV(Transform) ==
    ConvertCoordinateSystem(Transform, "Y", "Zn", "X")
ConvertOpenCVToUnreal_YUp(Transform) ==
    ConvertCoordinateSystem(Transform, "Z", "X", "Y")
ConvertOpenCVToUnreal(Transform) ==
    ConvertCoordinateSystem(Transform, "Z", "X", "Yn")

MaxConversions == 2
CallConvertUnrealToOpenCV ==
    /\ Len(convLog) < MaxConversions
    /\ convTransform' = ConvertUnrealToOpenCV(convTransform)
    /\ convLog' = Append(convLog, "ConvertUnrealToOpenCV")
    /\ UNCHANGED convOriginal
    /\ UNCHANGED OthersThanConv

CallConvertOpenCVToUnreal ==
    /\ Len(convLog) < MaxConversions
    /\ convTransform' = ConvertOpenCVToUnreal(convTransform)
    /\ convLog' = Append(convLog, "ConvertOpenCVToUnreal")
    /\ UNCHANGED convOriginal
    /\ UNCHANGED OthersThanConv

InitConvert ==
    /\ convTransform \in Poses
    /\ convOriginal = convTransform
    /\ convLog = <<>>
    /\ OccIdle
    /\ SamIdle
    /\ FaceIdle
    /\ BoxIdle
    /\ BatchIdle
    /\ InsideIdle
    /\ GearIdle
    /\ MeshOpIdle
    /\ AnnIdle

NextConvert == CallConvertUnrealToOpenCV \/ CallConvertOpenCVToUnreal

SpecConvert == InitConvert /\ [][NextConvert]_vars

-----------------------------------------------------------------------------
(* TestInside, on the hits of its two rays *)

MaxRayHits == 2         \* most hits a ray reports
\* What LineTraceMultiByChannel gives for a ray: the hits along it, nearest
\* first, and whether one of them blocks (overlaps alone: hits, but false).
\* A hit may be on something without an actor.
RayHits ==
    UNION {[1..n -> [Actor : {"Rock", "Wall", NoActor}, Distance : {0}]] :
               n \in 0..MaxRayHits}
RayResults ==
    {[bIsHit |-> b, Hits |-> [k \in 1..Len(h) |-> [h[k] EXCEPT !.Distance = k]]] :
        b \in BOOLEAN, h \in RayHits} \ {[bIsHit |-> TRUE, Hits |-> <<>>]}

\* The pairs (up, down) in the order of the two loops of lines 990-1001.
RECURSIVE FirstCommonActor(_, _, _, _)
FirstCommonActor(UpHitResults, DownHitResults, u, d) ==
    IF u > Len(UpHitResults) THEN [found |-> FALSE, deref |-> FALSE]
    ELSE IF d > Len(DownHitResults)
    THEN FirstCommonActor(UpHitResults, DownHitResults, u + 1, 1)
    ELSE IF UpHitResults[u].Actor = NoActor \/ DownHitResults[d].Actor = NoActor
    THEN [found |-> FALSE, deref |-> TRUE]
    ELSE IF UpHitResults[u].Actor = DownHitResults[d].Actor
    THEN [found |-> TRUE, deref |-> FALSE, UpHit |-> UpHitResults[u]]
    ELSE FirstCommonActor(UpHitResults, DownHitResults, u, d + 1)

TestInsideBody_LastCommon(Up, Down, CallersHit) ==
    IF ~Up.bIsHit \/ ~Down.bIsHit
    THEN {[ret |-> RetFalse, UpHitResult |-> CallersHit]}
    ELSE LET common == {u \in 1..Len(Up.Hits) :
                           \E d \in 1..Len(Down.Hits) :
                               Up.Hits[u].Actor = Down.Hits[d].Actor}
         IN  IF common = {}
             THEN {[ret |-> RetFalse, UpHitResult |-> CallersHit]}
             ELSE {[ret |-> RetTrue,
                    UpHitResult |-> Up.Hits[CHOOSE u \in common :
                                                \A v \in common : v <= u]]}

\* TestInside, lines 970-1003: its outcomes, each the value returned and
\* what UpHitResult holds then. GetActor()->GetUniqueID() on a hit without
\* an actor is a null dereference.
TestInsideBody(Up, Down, CallersHit) ==
    IF ~Up.bIsHit THEN {[ret |-> RetFalse, UpHitResult |-> CallersHit]}
    ELSE IF ~Down.bIsHit THEN {[ret |-> RetFalse, UpHitResult |-> CallersHit]}
    ELSE LET first == FirstCommonActor(Up.Hits, Down.Hits, 1, 1)
         IN  IF first.deref
             THEN {[ret |-> Crashed, UpHitResult |-> CallersHit],
                   [ret |-> RetFalse, UpHitResult |-> CallersHit]}
                  \cup {[ret |-> RetTrue, UpHitResult |-> Up.Hits[u]] :
                           u \in 1..Len(Up.Hits)}
             ELSE IF first.found
             THEN {[ret |-> RetTrue, UpHitResult |-> first.UpHit]}
             ELSE {[ret |-> RetFalse, UpHitResult |-> CallersHit]}

CallTestInside ==
    /\ insideCall.op = "pins"
    /\ \E out \in TestInsideBody(insideCall.Up, insideCall.Down, insideUpHitResult) :
          /\ insideRet' = out.ret
          /\ insideUpHitResult' = out.UpHitResult
    /\ insideCall' = [insideCall EXCEPT !.op = "TestInside"]
    /\ UNCHANGED OthersThanInside

InitInside ==
    /\ insideCall \in [op : {"pins"}, Up : RayResults, Down : RayResults,
                       Prior : {[Actor |-> NoActor, Distance |-> 0],
                                [Actor |-> "Rock", Distance |-> 9]}]
    /\ insideUpHitResult = insideCall.Prior
    /\ insideRet = NotCalled
    /\ OccIdle
    /\ SamIdle
    /\ FaceIdle
    /\ BoxIdle
    /\ BatchIdle
    /\ ConvIdle
    /\ GearIdle
    /\ MeshOpIdle
    /\ AnnIdle

NextInside == CallTestInside

SpecInside == InitInside /\ [][NextInside]_vars

-----------------------------------------------------------------------------
(* DetectOcclusionMesh *)

MaxMeshVerts == 4       \* most vertices the sampler gives for a mesh
SampleRates == {-1, 0, 1, 2, 3, MaxMeshVerts + 1}

\* for (int idx = 0; idx < VertexPositions.Num(); idx += SampleRate)
\*     VertexPositionsSampled.Add(VertexPositions[idx]);
RECURSIVE SampleLoop(_, _, _)
SampleLoop(Positions, SampleRate, idx) ==
    IF idx < Len(Positions)
    THEN <<Positions[idx + 1]>> \o SampleLoop(Positions, SampleRate, idx + SampleRate)
    ELSE <<>>

VertexPositionsSampled_AllBelowTwo(Positions, SampleRate) ==
    IF SampleRate > 2 THEN SampleLoop(Positions, SampleRate, 0) ELSE Positions

\* Lines 570-579.
VertexPositionsSampled(Positions, SampleRate) ==
    IF SampleRate > 1 THEN SampleLoop(Positions, SampleRate, 0) ELSE Positions

\* DetectOcclusionMesh, lines 524-597, for a mesh component with an owner
\* and a camera that can be read: the vertex sampler fails, or gives the
\* vertices of the LOD; the labels go to a local array.
CallDetectOcclusionMesh ==
    /\ occCall.op = NotCalled
    /\ \E SampleRate \in SampleRates :
         \/ /\ occCall' = [op |-> "DetectOcclusionMesh", isSuccess |-> FALSE,
                           SampleRate |-> SampleRate]
            /\ occRet' = RetFalse
            /\ UNCHANGED <<non_occlusion_rate, self_occlusion_rate,
                           inter_occlusion_rate, rayCount>>
         \/ \E n \in 0..MaxMeshVerts :
              LET Positions == PointSet(n)
                  Sampled == VertexPositionsSampled(Positions, SampleRate)
              IN  \E hits \in SceneAnswers(Sampled) :
                    \E out \in DetectInterOcclusionVertices(
                                   hits, occCaller.Camera, occCaller.MeshName, <<>>,
                                   <<non_occlusion_rate, self_occlusion_rate,
                                     inter_occlusion_rate>>,
                                   occCaller.MeshThickness) :
                      /\ occCall' = [op |-> "DetectOcclusionMesh",
                                     isSuccess |-> TRUE,
                                     SampleRate |-> SampleRate,
                                     VertexPositions |-> Positions,
                                     VertexPositionsSampled |-> Sampled,
                                     VerticesOcclusion |-> out.VerticesOcclusion,
                                     hits |-> hits]
                      /\ occRet' = out.ret
                      /\ non_occlusion_rate' = out.non_occlusion_rate
                      /\ self_occlusion_rate' = out.self_occlusion_rate
                      /\ inter_occlusion_rate' = out.inter_occlusion_rate
                      /\ rayCount' = out.rays
    /\ UNCHANGED <<VerticesOcclusion, occCaller>>
    /\ UNCHANGED OthersThanOcc

InitMesh ==
    /\ OccIdle
    /\ SamIdle
    /\ FaceIdle
    /\ BoxIdle
    /\ BatchIdle
    /\ ConvIdle
    /\ InsideIdle
    /\ GearIdle
    /\ MeshOpIdle
    /\ AnnIdle

NextMesh == CallDetectOcclusionMesh

SpecMesh == InitMesh /\ [][NextMesh]_vars

-----------------------------------------------------------------------------
(* The Gear plugin's DetectOcclusionSkeletalMesh: the body of its loop over *)
(* the sample points, on the inputs of the classifier node.                 *)

GearTolerance == 5      \* HitPosition.Equals(vertex, 5)

\* FVector::Equals(V, Tolerance): every coordinate within the tolerance.
Equals(a, b, Tolerance) ==
    /\ Abs(a[1] - b[1]) <= Tolerance
    /\ Abs(a[2] - b[2]) <= Tolerance
    /\ Abs(a[3] - b[3]) <= Tolerance

\* Which counter the loop body adds to: num_hit (NonOcclusion),
\* num_self_occlusion or num_inter_occlusion. GetActor()->GetFName() on a
\* hit without an actor reads through a null pointer.
GearClassOfSample(Hit, vertex, SkeletalMeshName, IsHit) ==
    LET OfName(HitActorName) ==
            IF HitActorName = SkeletalMeshName
            THEN IF Equals(Hit.Location, vertex, GearTolerance)
                 THEN NonOcclusion ELSE SelfOcclusion
            ELSE InterOcclusion
    IN  IF ~IsHit THEN {NonOcclusion}
        ELSE IF Hit.Actor = NoActor
        THEN {Crashed} \cup {OfName(n) : n \in ActorNames}
        ELSE {OfName(Hit.Actor)}

\* The Gear loop body on the ray the classifier node was given: the sample
\* point is the end of the trace.
CallGearClassifySample ==
    /\ gearClass = NotCalled
    /\ occCall.op \in {"pins", "GetOcclusionFromHitResult"}
    /\ gearClass' \in GearClassOfSample(occCall.HitResult, occCall.HitResult.TraceEnd,
                                        occCall.MeshName, occCall.bIsHit)
    /\ UNCHANGED OthersThanGear

InitAgree ==
    /\ OccOutputsFresh
    /\ occCaller = [Camera |-> TheCamera, MeshName |-> "Body",
                    MeshThickness |-> DefaultMeshThickness]
    /\ occCall \in ClassifyInputs
    /\ gearClass = NotCalled
    /\ SamIdle
    /\ FaceIdle
    /\ BoxIdle
    /\ BatchIdle
    /\ ConvIdle
    /\ InsideIdle
    /\ MeshOpIdle
    /\ AnnIdle

NextAgree == CallGetOcclusionFromHitResult \/ CallGearClassifySample

SpecAgree == InitAgree /\ [][NextAgree]_vars

-----------------------------------------------------------------------------
(* UMoviePipelineMeshOperator::OnReceiveImageDataImpl *)

MaxFrames == 3

SkeletalMeshComponents == {"Body", "Other"}
StaticMeshComponents == {"Prop"}

MeshOptions ==
    [bEnabled : BOOLEAN, bSaveVerticesPosition : BOOLEAN,
     bSaveSkeletonPosition : BOOLEAN, bStaticEnabled : BOOLEAN,
     bStaticSaveVerticesPosition : BOOLEAN]

Written(kind, MeshName, frame) ==
    [kind |-> kind, mesh |-> MeshName, frame |-> frame]

\* The body of the loop over the skeletal meshes for one mesh: a failed
\* vertex sampling continues with the next mesh, before the skeleton part.
SkeletalMeshWrites(MeshName, frame, first, isSuccess) ==
    IF ~meshOption.bEnabled THEN {}
    ELSE IF meshOption.bSaveVerticesPosition /\ ~isSuccess THEN {}
    ELSE (IF meshOption.bSaveVerticesPosition
          THEN {Written("Vertices", MeshName, frame)} ELSE {})
         \cup
         (IF meshOption.bSaveSkeletonPosition
          THEN (IF first THEN {Written("BoneName", MeshName, frame)} ELSE {})
               \cup {Written("Skeleton", MeshName, frame)}
          ELSE {})

\* The body of the loop over the static meshes for one mesh.
StaticMeshWrites(MeshName, frame, isSuccess) ==
    IF meshOption.bStaticEnabled /\ meshOption.bStaticSaveVerticesPosition /\ isSuccess
    THEN {Written("StaticVertices", MeshName, frame)}
    ELSE {}

\* One received frame. Whether the vertices of a mesh can be sampled in this
\* frame is the state of its component, which the operator does not own.
OnReceiveImageDataImpl ==
    /\ meshFrame < MaxFrames
    /\ \E isSuccess \in [SkeletalMeshComponents \cup StaticMeshComponents -> BOOLEAN] :
          meshWritten' = meshWritten
              \cup UNION {SkeletalMeshWrites(n, meshFrame + 1, bIsFirstFrame, isSuccess[n]) :
                            n \in SkeletalMeshComponents}
              \cup UNION {StaticMeshWrites(n, meshFrame + 1, isSuccess[n]) :
                            n \in StaticMeshComponents}
    /\ bIsFirstFrame' = IF bIsFirstFrame THEN FALSE ELSE bIsFirstFrame
    /\ meshFrame' = meshFrame + 1
    /\ UNCHANGED <<meshOption, OthersThanMeshOp>>

InitMeshOp ==
    /\ bIsFirstFrame = TRUE
    /\ meshFrame = 0
    /\ meshWritten = {}
    /\ meshOption \in MeshOptions
    /\ OccIdle
    /\ SamIdle
    /\ FaceIdle
    /\ BoxIdle
    /\ BatchIdle
    /\ ConvIdle
    /\ InsideIdle
    /\ GearIdle
    /\ AnnIdle

NextMeshOp == OnReceiveImageDataImpl

SpecMeshOp == InitMeshOp /\ [][NextMeshOp]_vars

-----------------------------------------------------------------------------
(* AAnnotator::Initialize and AAnnotator::Tick *)

MaxTicks == 4
MaxSequenceActors == 2

\* The level-sequence actors of the world in iteration order, each with
\* bValid: it has a sequence player and the player is playing.
Worlds ==
    UNION {[1..n -> [name : {"SeqA", "SeqB"}, bValid : BOOLEAN]] :
             n \in 0..MaxSequenceActors}

\* The loop over the level-sequence actors: the first actor that is not
\* valid returns from Initialize; every valid actor before it is stored.
\* Gives the actor stored when the loop stops (the one stored before the
\* call when none was) and whether the loop returned.
RECURSIVE FindPlaying(_, _, _)
FindPlaying(World, i, Stored) ==
    IF i > Len(World) THEN [Actor |-> Stored, returned |-> FALSE]
    ELSE IF ~World[i].bValid THEN [Actor |-> Stored, returned |-> TRUE]
    ELSE FindPlaying(World, i + 1, World[i].name)

TickRecord(before, found, readUnset, bodyRan, after, exported) ==
    [before |-> before, found |-> found, readUnset |-> readUnset,
     bodyRan |-> bodyRan, after |-> after, exported |-> exported]

\* Initialize in a world, as the outcomes it can have: the actor stored, the
\* flag, and what the call did. LevelSequenceActor->GetSequence() after a
\* loop that stored nothing reads the member as it was: unset in a world
\* without level-sequence actors.
Initialize(World) ==
    IF bInitialized
    THEN {[Actor |-> LevelSequenceActor, bInitialized |-> TRUE, crashed |-> FALSE,
           found |-> FALSE, readUnset |-> FALSE, bodyRan |-> FALSE]}
    ELSE LET loop == FindPlaying(World, 1, LevelSequenceActor)
             found == \E i \in 1..Len(World) :
                          \A j \in 1..i : World[j].bValid
         IN  IF loop.returned
             THEN {[Actor |-> loop.Actor, bInitialized |-> FALSE, crashed |-> FALSE,
                    found |-> found, readUnset |-> FALSE, bodyRan |-> FALSE]}
             ELSE IF loop.Actor = UnsetActor
             THEN {[Actor |-> UnsetActor, bInitialized |-> b, crashed |-> ~b,
                    found |-> FALSE, readUnset |-> TRUE, bodyRan |-> b] :
                      b \in BOOLEAN}
             ELSE {[Actor |-> loop.Actor, bInitialized |-> TRUE, crashed |-> FALSE,
                    found |-> found, readUnset |-> FALSE, bodyRan |-> TRUE]}

\* One Tick: Initialize, then the three exports when bInitialized is set.
Tick ==
    /\ annPc = "Ticking"
    /\ Len(annTicks) < MaxTicks
    /\ \E World \in Worlds :
         \E init \in Initialize(World) :
            /\ LevelSequenceActor' = init.Actor
            /\ bInitialized' = init.bInitialized
            /\ annPc' = IF init.crashed THEN Crashed ELSE "Ticking"
            /\ annTicks' = Append(annTicks,
                  TickRecord(bInitialized, init.found, init.readUnset, init.bodyRan,
                             init.bInitialized,
                             ~init.crashed /\ init.bInitialized))
    /\ UNCHANGED OthersThanAnn

InitAnnotator ==
    /\ bInitialized = FALSE
    /\ LevelSequenceActor = UnsetActor
    /\ annPc = "Ticking"
    /\ annTicks = <<>>
    /\ OccIdle
    /\ SamIdle
    /\ FaceIdle
    /\ BoxIdle
    /\ BatchIdle
    /\ ConvIdle
    /\ InsideIdle
    /\ GearIdle
    /\ MeshOpIdle

NextAnnotator == Tick

SpecAnnotator == InitAnnotator /\ [][NextAnnotator]_vars

-----------------------------------------------------------------------------
(* Claims about the occlusion classifier *)

Classified == occCall.op = "GetOcclusionFromHitResult"
OwnerHit ==
    Classified /\ occCall.bIsHit /\ occCall.HitResult.Actor = occCall.MeshName
TargetToHitSquared ==
    DistSquared(occCall.HitResult.TraceEnd, occCall.HitResult.Location)

C2_NoHitIsNonOcclusion ==
    (Classified /\ ~occCall.bIsHit) => occRet = NonOcclusion

\* No hit, with a hit record that still names another actor close to the target.
C2_Witness ==
    /\ Classified /\ ~occCall.bIsHit
    /\ occCall.HitResult.Actor \in ActorNames \ {occCall.MeshName}
    /\ TargetToHitSquared < 25 /\ occCall.MeshThickness = 5
    /\ occRet = NonOcclusion

\* C3: a ray hit on an actor other than the owner is labelled InterOcclusion,
\* at every hit distance and every threshold.
C3_OtherActorIsInterOcclusion ==
    (/\ Classified /\ occCall.bIsHit
     /\ occCall.HitResult.Actor \in ActorNames
     /\ occCall.HitResult.Actor # occCall.MeshName)
        => occRet = InterOcclusion

\* A hit on another actor, closer to the target than the threshold.
C3_Witness ==
    /\ Classified /\ occCall.bIsHit
    /\ occCall.HitResult.Actor \in ActorNames \ {occCall.MeshName}
    /\ occCall.MeshThickness = 5 /\ TargetToHitSquared = 16
    /\ occRet = InterOcclusion

Detected == occCall.op = "DetectInterOcclusionVertices"
IsZeroRate(r) == r.kind = "Ratio" /\ r.num = 0
IsRate(r, count, total) == r = Ratio(count, total)

\* C4: whatever the label array held before the call, the labels returned are
\* exactly one per point, in point order, the three counts add up to the
\* number of points, and for a non-empty point set the rates are the counts
\* over the number of points.
C4_OneLabelPerPoint ==
    (Detected /\ occRet = RetTrue /\ occCaller.Camera # NULL) =>
        LET P == occCall.Vertices
            Expected == [i \in 1..Len(P) |->
                CHOOSE o \in GetOcclusionFromHitResult(
                                 occCall.hits[i].HitResult, occCaller.MeshName,
                                 DefaultMeshThickness, occCall.hits[i].bIsHit) : TRUE]
        IN  /\ VerticesOcclusion = Expected
            /\ CountOf(VerticesOcclusion, NonOcclusion)
                 + CountOf(VerticesOcclusion, SelfOcclusion)
                 + CountOf(VerticesOcclusion, InterOcclusion) = Len(P)
            /\ Len(P) > 0 =>
                 /\ IsRate(non_occlusion_rate, CountOf(Expected, NonOcclusion), Len(P))
                 /\ IsRate(self_occlusion_rate, CountOf(Expected, SelfOcclusion), Len(P))
                 /\ IsRate(inter_occlusion_rate, CountOf(Expected, InterOcclusion), Len(P))

\* C5: an empty point set gives three rates of 0 (no NaN).
C5_EmptyPointSetZeroRates ==
    (Detected /\ occCaller.Camera # NULL /\ Len(occCall.Vertices) = 0) =>
        /\ IsZeroRate(non_occlusion_rate)
        /\ IsZeroRate(self_occlusion_rate)
        /\ IsZeroRate(inter_occlusion_rate)

\* C6: the caller's MeshThickness is the threshold of every point: an owner
\* hit at distance d is labelled SelfOcclusion iff d < MeshThickness.
C6_CallerThicknessUsed ==
    (Detected /\ occRet = RetTrue /\ occCaller.Camera # NULL) =>
        \A i \in 1..Len(occCall.hits) :
            LET h == occCall.hits[i]
                label == VerticesOcclusion[Len(occCall.Prior) + i]
            IN  (h.bIsHit /\ h.HitResult.Actor = occCaller.MeshName) =>
                    (label = SelfOcclusion <=>
                        DistLess(h.HitResult.TraceEnd, h.HitResult.Location,
                                 occCaller.MeshThickness))

\* C7: with a null camera the operation returns failure, casts no ray and
\* writes neither a label nor a rate.
C7_NullCameraFailsFast ==
    (Detected /\ occCaller.Camera = NULL) =>
        /\ occRet = RetFalse
        /\ rayCount = 0
        /\ VerticesOcclusion = occCall.Prior
        /\ <<non_occlusion_rate, self_occlusion_rate, inter_occlusion_rate>>
             = occCall.PriorRates

-----------------------------------------------------------------------------
(* Claims about the geometry sampler *)

SkinnedCalled == samCall.op = "GetSkeletalMeshVertexLocationsByLODIndex"
StaticCalled == samCall.op = "GetStaticMeshVertexLocations"
BonesCalled == samCall.op = "GetSkeletalMeshBoneLocations"

\* The component of the last call is usable and has render data.
SkinnedCompUsable ==
    /\ samCall.Comp # NULL
    /\ samCall.Comp.valid
    /\ samCall.Comp.RenderData # NULL

\* C8: a LOD index that is no 0-based index of the LOD list (index >= number
\* of LODs, or index < 0) makes the skinned-vertex sampler return false with
\* an empty output, and the LOD array is not read at that index.
C8_InvalidLODIndexRejected ==
    (/\ SkinnedCalled
     /\ SkinnedCompUsable
     /\ samCall.LODIndex \notin 0..(Len(samCall.Comp.RenderData.LODs) - 1))
        => /\ samRet = RetFalse
           /\ VertexPositions = <<>>
           /\ samCall.lodRead = {}

\* The input of the last sampler call is invalid: a null component, a
\* missing mesh, or a missing LOD description.
SamplerInputInvalid ==
    \/ samCall.Comp = NULL
    \/ /\ StaticCalled
       /\ samCall.Comp # NULL
       /\ ENGINE_MAJOR_VERSION = 5
       /\ \/ samCall.Comp.Mesh = NULL
          \/ samCall.LODIndex + 1 \notin 1..Len(samCall.Comp.Mesh.LODs)
    \/ /\ StaticCalled
       /\ samCall.Comp # NULL
       /\ ENGINE_MAJOR_VERSION = 4
       /\ samCall.Comp.BodySetup = NULL

\* C9: a sampler operation that fails on an invalid input returns false and
\* leaves its output sequences empty: nothing partial, nothing left over from
\* before the call.
C9_FailedSamplerLeavesOutputsEmpty ==
    (samCall.op # NotCalled /\ SamplerInputInvalid) =>
        /\ samRet = RetFalse
        /\ (StaticCalled \/ SkinnedCalled) => VertexPositions = <<>>
        /\ BonesCalled => (BoneLocations = <<>> /\ BoneNames = <<>>)

\* C10: a second call of GetStaticMeshVertexLocations on the same component
\* and LOD, into the same array, leaves the array as the first call left it.
C10_StaticVerticesRepeatable ==
    (/\ StaticCalled
     /\ samCall.prev.op = "GetStaticMeshVertexLocations"
     /\ samCall.prev.Comp = samCall.Comp
     /\ samCall.prev.LODIndex = samCall.LODIndex
     /\ samCall.prev.ret = RetTrue)
        => (samRet = RetTrue /\ VertexPositions = samCall.Prior)

-----------------------------------------------------------------------------
(* Claims about the skeleton sampler *)

\* C11: on a skeleton with N joints GetSkeletalMeshBoneLocations returns N
\* names and N positions, in the skeleton's order, position i the location of
\* the joint named by name i; what the output lists held before is discarded,
\* so a repeated call in the same frame returns the same lists.
C11_BoneNamesAlignedWithLocations ==
    (BonesCalled /\ samCall.Comp # NULL) =>
        LET N == Len(samCall.Comp.Bones)
        IN  /\ samRet = RetTrue
            /\ BoneNames = samCall.Comp.Bones
            /\ Len(BoneLocations) = N
            /\ \A i \in 1..N :
                   BoneLocations[i] = GetBoneLocation(samCall.Comp, BoneNames[i])
            /\ (samCall.prev.op = "GetSkeletalMeshBoneLocations"
                    /\ samCall.prev.Comp = samCall.Comp)
                  => BoneLocations = samCall.Prior

\* A second call on a moved and scaled component with two joints, into lists
\* that hold the first call's two entries.
C11_Witness ==
    /\ BonesCalled /\ samCall.Comp # NULL
    /\ samCall.prev.op = "GetSkeletalMeshBoneLocations"
    /\ samCall.prev.Comp = samCall.Comp
    /\ Len(samCall.Prior) = 2
    /\ Len(samCall.Comp.Bones) = 2
    /\ samCall.Comp.Transform.Yaw = 1
    /\ Len(BoneLocations) = 2 /\ BoneLocations[1] # BoneLocations[2]

-----------------------------------------------------------------------------
(* Claims about the face centers *)

FaceCalled == faceCall.op = "GetSkeletalMeshValidFaceCentersByLODIndex"

\* Triangle k (counted from 1) of the index buffer of the last call: indices
\* 3k-3, 3k-2, 3k-1 of the buffer; its center and the dot product of the
\* camera's forward vector with its world-space normal.
FaceTriangle(k) ==
    LET V == TransformAll(faceCall.Comp.Transform, FaceVertices)
        F == faceCall.Comp.FaceIndices
        p1 == V[F[3 * k - 2] + 1]
        p2 == V[F[3 * k - 1] + 1]
        p3 == V[F[3 * k] + 1]
    IN  [center |-> CenterOf(p1, p2, p3),
         dot |-> DotProduct(faceCall.CameraForward,
                            RotateVector(faceCall.ActorRotator,
                                CrossProduct(Sub3(p1, p3), Sub3(p2, p1))))]

FacingCenters ==
    LET n == Len(faceCall.Comp.FaceIndices) \div 3
        kept == SelectSeq([k \in 1..n |-> FaceTriangle(k)],
                          LAMBDA t : t.dot > 0)
    IN  [k \in 1..Len(kept) |-> kept[k].center]

\* C12: the index buffer is walked in triples (a trailing incomplete triple
\* is ignored) and the output holds, in buffer order, the centers of exactly
\* the triangles with dot(cameraForward, worldNormal) > 0.
C12_FacingTriangleCenters ==
    (FaceCalled /\ faceRet = RetTrue /\ faceCall.LODIndex = 0)
        => Centers = FacingCenters

-----------------------------------------------------------------------------
(* Claims about the box-trace sweep *)

Sweeping == boxPc = "Sweeping"
Stepped == boxStep.kind # NotCalled
\* The last iteration found a hit of the box sweep or of the inside probe.
StepFound == boxStep.bIsHit \/ boxStep.bIsInside
\* The world point (x, y) lies strictly inside the border of the call.
StrictlyInside(x, y) ==
    /\ Origin[1] + boxCall.Border.MinXExtend < x
    /\ x < Origin[1] + boxCall.Border.MaxXExtend
    /\ Origin[2] + boxCall.Border.MinYExtend < y
    /\ y < Origin[2] + boxCall.Border.MaxYExtend
\* The grid point of the last iteration lies strictly inside the border.
StepInside == StrictlyInside(boxStep.Start[1], boxStep.Start[2])
StepInCore == boxStep.i < 10 /\ boxStep.j < 10
\* The sweep stands on the same row, one step further, in the same quadrant.
MovedAlongRow ==
    /\ gridI = boxStep.i /\ gridJ = boxStep.j + 1
    /\ SignX = boxStep.SignX /\ SignY = boxStep.SignY
IsCellRow(r) == r.row = "cell"
CellRows == SelectSeq(HitBoxesInfo, IsCellRow)

\* C13: at a grid step strictly inside the border where the box sweep hits
\* or the inside probe succeeds, exactly one cell is appended (from the
\* inside probe's hit if it succeeded, else from the box sweep's), both
\* counters become 0 and the sweep goes on at (i, j+1) of the same row; no
\* cell is ever appended for a grid point on or outside the border.
C13_HitTransition ==
    /\ (Stepped /\ StepFound /\ StepInside) =>
          /\ boxStep.kind = "Hit"
          /\ Len(HitBoxesInfo) = boxStep.rows + 1
          /\ LET HitRes == IF boxStep.bIsInside THEN boxStep.UpHitResult
                           ELSE boxStep.HitResult
                 cell == HitBoxesInfo[Len(HitBoxesInfo)]
             IN  /\ IsCellRow(cell)
                 /\ cell.actor_name = HitRes.Actor
                 /\ <<cell.x, cell.y>> = <<HitRes.Location[1], HitRes.Location[2]>>
          /\ NotHitCount = 0 /\ NotHitRowCount = 0
          /\ Sweeping
          /\ MovedAlongRow
    /\ (Stepped /\ ~StepInside) => Len(HitBoxesInfo) = boxStep.rows
    /\ \A k \in 1..Len(HitBoxesInfo) :
          IsCellRow(HitBoxesInfo[k]) =>
              StrictlyInside(HitBoxesInfo[k].x, HitBoxesInfo[k].y)

\* C14: a step inside the border without box hit and without inside-probe
\* success, at i < 10 and j < 10, is passed through: no cell, both counters
\* as they were, on to (i, j+1). No other step is passed through.
C14_ProtectedCorePassThrough ==
    Stepped =>
        /\ (boxStep.kind = "Pass") <=> (StepInside /\ ~StepFound /\ StepInCore)
        /\ (boxStep.kind = "Pass") =>
              /\ Len(HitBoxesInfo) = boxStep.rows
              /\ NotHitCount = boxStep.NotHitCount
              /\ NotHitRowCount = boxStep.NotHitRowCount
              /\ Sweeping
              /\ MovedAlongRow

\* A pass-through after two misses of the same row: the count stays 2.
C14_Witness ==
    /\ boxStep.kind = "Pass"
    /\ boxStep.NotHitCount = 2 /\ NotHitCount = 2
    /\ boxStep.j = 2 /\ gridJ = 3

\* The last iteration was a miss outside the protected core.
StepMissed == ~(StepFound /\ StepInside) /\ ~(StepInCore /\ StepInside)

\* C15: every miss outside the protected core counts: the 1st and 2nd since
\* the last cell (or row start) only advance j, the 3rd closes the row
\* (NotHitCount 0, NotHitRowCount + 1, on to (i+1, 0)), and a quadrant ends
\* exactly on the row closure that takes NotHitRowCount over 2. The row
\* index advances only through a row closure.
C15_MissTransition ==
    Stepped =>
        /\ StepMissed <=> boxStep.kind \in {"Miss", "CloseRow", "EndQuadrant"}
        /\ (boxStep.kind = "Miss") =>
              /\ boxStep.NotHitCount \in {0, 1}
              /\ NotHitCount = boxStep.NotHitCount + 1
              /\ NotHitRowCount = boxStep.NotHitRowCount
              /\ MovedAlongRow
        /\ (boxStep.kind = "CloseRow") =>
              /\ boxStep.NotHitCount = 2 /\ boxStep.NotHitRowCount \in {0, 1}
              /\ NotHitCount = 0
              /\ NotHitRowCount = boxStep.NotHitRowCount + 1
              /\ gridI = boxStep.i + 1 /\ gridJ = 0
              /\ SignX = boxStep.SignX /\ SignY = boxStep.SignY
        /\ (boxStep.kind = "EndQuadrant") <=>
              (StepMissed /\ boxStep.NotHitCount = 2 /\ boxStep.NotHitRowCount = 2)
        /\ (boxStep.kind # "CloseRow" /\ boxStep.kind # "EndQuadrant") =>
              gridI = boxStep.i
        /\ (boxStep.kind # "EndQuadrant") =>
              (SignX = boxStep.SignX /\ SignY = boxStep.SignY /\ boxPc # "Done")
        /\ (boxPc = "Done") => (boxStep.kind = "EndQuadrant")

\* The whole call ended on the third row closure in a row, after rows that
\* held cells.
C15_Witness ==
    /\ boxPc = "Done"
    /\ boxStep.kind = "EndQuadrant"
    /\ boxStep.NotHitCount = 2 /\ boxStep.NotHitRowCount = 2
    /\ boxStep.i = MaxExtendSteps + 1
    /\ Len(CellRows) > 0

VoidScene == boxCall.Scene.kind = "Void"

\* C16: in a scene where neither probe ever hits, whatever the border, a
\* quadrant sweep ends within 39 iterations (3 rows of at most 10 passed
\* steps and 3 misses), stands on rows 0, 1, 2 only, and no cell is recorded.
C16_VoidSceneBounded ==
    /\ [](VoidScene =>
            /\ gridI <= 2
            /\ stepCount < 39
            /\ (Stepped /\ boxStep.kind = "EndQuadrant") => boxStep.steps <= 39
            /\ Len(CellRows) = 0)
    /\ ((VoidScene /\ Sweeping) ~> (boxPc = "Done"))

\* The last quadrant of a void scene ended at its 39th iteration, in a
\* border wider than the protected core.
C16_Witness ==
    /\ VoidScene
    /\ boxPc = "Done"
    /\ boxStep.steps = 39
    /\ boxCall.Border.MaxYExtend > 10 * boxCall.BoxHalfSize
    /\ Len(HitBoxesInfo) = 3

\* The grid point (gi, gj) of the quadrant being swept is on or outside the
\* border.
OutsideAt(gi, gj) ==
    ~StrictlyInside(Origin[1] + DeltaStep * gi * SignX,
                    Origin[2] + DeltaStep * gj * SignY)
\* Row gi of the quadrant being swept has no grid point inside the border.
RowOutside(gi) == \A gj \in 0..GridCap : OutsideAt(gi, gj)

\* C17: every sweep that has started runs to its end: a row is closed at
\* most 3 steps after it left the border, the quadrant ends at most 3 rows
\* after the rows left the border, and the call reaches its return.
C17_EverySweepRunsToItsEnd ==
    /\ [](Sweeping =>
            /\ ~(gridJ >= 3 /\ \A gj \in (gridJ - 3)..(gridJ - 1) : OutsideAt(gridI, gj))
            /\ ~(gridI >= 3 /\ \A gi \in (gridI - 3)..(gridI - 1) : RowOutside(gi)))
    /\ (Sweeping ~> (boxPc = "Done"))

\* The seed is the center of a border of B units to each side, B a whole
\* number of steps, over a ground plane.
FlatGroundCentered ==
    /\ boxCall.Scene.kind = "Ground"
    /\ boxCall.Border.MinXExtend = -boxCall.Border.MaxXExtend
    /\ boxCall.Border.MinYExtend = -boxCall.Border.MaxXExtend
    /\ boxCall.Border.MaxYExtend = boxCall.Border.MaxXExtend
    /\ boxCall.Border.MaxXExtend % boxCall.BoxHalfSize = 0
BorderSteps == boxCall.Border.MaxXExtend \div boxCall.BoxHalfSize
\* The points of the plane that have a cell row.
CellPoints == {<<CellRows[k].x, CellRows[k].y>> : k \in 1..Len(CellRows)}
\* Every grid point strictly inside the border has a cell, and the table has
\* (B/s)*2 * (B/s)*2 cell rows.
EveryGridPointRecorded ==
    LET points == CellPoints
    IN  /\ \A gx, gy \in (1 - BorderSteps)..(BorderSteps - 1) :
              <<Origin[1] + DeltaStep * gx, Origin[2] + DeltaStep * gy>> \in points
        /\ Len(CellRows) = (BorderSteps * 2) * (BorderSteps * 2)

\* C18 as stated: on flat ground every grid point strictly inside the border
\* gets a cell with Z = ground height minus the box half-size, (B/s)*2 *
\* (B/s)*2 cell rows in all.
C18_FlatGround_AsStated ==
    (FlatGroundCentered /\ boxPc = "Done") =>
        /\ EveryGridPointRecorded
        /\ \A k \in 1..Len(CellRows) : CellRows[k].z = GroundZ - boxCall.BoxHalfSize

\* C18, amended: the cells' Z is the Z of the box sweep's hit location (the
\* center of the box where it rests on the plane) minus the box half-size:
\* the height of the ground plane itself.
C18_FlatGround ==
    (FlatGroundCentered /\ boxPc = "Done") =>
        /\ EveryGridPointRecorded
        /\ \A k \in 1..Len(CellRows) : CellRows[k].z = GroundZ

\* The call returned from a border of MaxExtendSteps - 1 steps to each side.
C18_Witness ==
    /\ FlatGroundCentered /\ boxPc = "Done"
    /\ BorderSteps = MaxExtendSteps - 1
    /\ Len(CellRows) = 4 * (MaxExtendSteps - 1) * (MaxExtendSteps - 1)

\* A cell was recorded at (gx, gy) steps from the seed.
CellAt(gx, gy, points) ==
    <<Origin[1] + DeltaStep * gx, Origin[2] + DeltaStep * gy>> \in points
GapScene == boxCall.Scene.kind = "Gap"
\* The gap of the scene lies in the protected core of row gx.
GapInCore(gx) ==
    Abs(gx) < 10 /\ boxCall.Scene.at + boxCall.Scene.width - 1 < 10
GridRange == (-MaxExtendSteps)..MaxExtendSteps

\* C19: outside the protected core a hit after 1 or 2 missing steps is
\* recorded on the same row, and a gap of 1 or 2 steps does not keep the
\* sweep from the cells behind it, while behind a gap of 3 or more steps no
\* cell of the row is recorded, in-border ground or not.
C19_GapTolerance ==
    /\ (Stepped /\ boxStep.kind = "Hit" /\ boxStep.NotHitCount \in {1, 2}) =>
          /\ gridI = boxStep.i
          /\ Len(HitBoxesInfo) = boxStep.rows + 1
          /\ NotHitCount = 0
    /\ (GapScene /\ boxPc = "Done") =>
          LET points == CellPoints
          IN  \A gx, gy \in GridRange :
                  (/\ Abs(gy) >= boxCall.Scene.at + boxCall.Scene.width
                   /\ ~GapInCore(gx)
                   /\ StrictlyInside(Origin[1] + DeltaStep * gx,
                                     Origin[2] + DeltaStep * gy))
                      => (CellAt(gx, gy, points) <=> boxCall.Scene.width <= 2)

\* A gap of 3 steps at columns 3..5: rows 10 and up end at the gap, the
\* ground behind it is not recorded; the rows of the core pass the gap.
C19_Witness ==
    /\ GapScene /\ boxPc = "Done"
    /\ boxCall.Scene.width = 3 /\ boxCall.Scene.at = 3
    /\ CellAt(10, 2, CellPoints) /\ ~CellAt(10, 6, CellPoints)
    /\ CellAt(9, 6, CellPoints)
    /\ StrictlyInside(Origin[1] + DeltaStep * 10, Origin[2] + DeltaStep * 6)

TableSaved == boxPc = "Done" /\ savedFile.written
\* Every row of the saved table from row n on is a cell row, and they are
\* the cells recorded, in the order of recording.
CellsFromRow(n) ==
    /\ \A k \in n..Len(savedFile.text) : IsCellRow(savedFile.text[k])
    /\ SubSeq(savedFile.text, n, Len(savedFile.text)) = CellRows

\* C20 as stated: a column header row, a second row with the sweep
\* metadata, and cell rows from the third row on.
C20_TableLayout_AsStated ==
    TableSaved =>
        /\ savedFile.text[1].row = "columns"
        /\ savedFile.text[2].row \in {"metadata_names", "metadata"}
        /\ CellsFromRow(3)

\* C20, amended: the table has three rows ahead of the cells: the column
\* header, the names of the metadata fields, and the values of the metadata;
\* the cell rows follow from the fourth row on, one per cell recorded, in
\* the order of recording (a hit appends one row, no other step any).
C20_TableLayout ==
    /\ TableSaved =>
          /\ savedFile.text = HitBoxesInfo
          /\ Len(savedFile.text) >= 3
          /\ savedFile.text[1] =
                 [row |-> "columns", text |-> "actor_name,x,y,z,materials,visible"]
          /\ savedFile.text[2] =
                 [row |-> "metadata_names",
                  text |-> "BoxHalfSize,DeltaStep,CenterX,CenterY,CenterZ,HitEndZ"]
          /\ savedFile.text[3] =
                 [row |-> "metadata", BoxHalfSize |-> boxCall.BoxHalfSize,
                  DeltaStep |-> boxCall.BoxHalfSize, CenterX |-> Origin[1],
                  CenterY |-> Origin[2], CenterZ |-> Origin[3],
                  HitEndZ |-> boxCall.HitEndZ]
          /\ CellsFromRow(4)
    /\ Stepped =>
          Len(HitBoxesInfo) = boxStep.rows + (IF boxStep.kind = "Hit" THEN 1 ELSE 0)

\* A saved table with cells behind the three leading rows.
C20_Witness ==
    /\ TableSaved
    /\ Len(savedFile.text) > 4
    /\ IsCellRow(savedFile.text[4]) /\ ~IsCellRow(savedFile.text[3])

\* The quadrant swept after the quadrant of signs q.
NextQuadrant(q) ==
    CASE q = <<1, 1>> -> <<1, -1>>
      [] q = <<1, -1>> -> <<-1, 1>>
      [] q = <<-1, 1>> -> <<-1, -1>>

\* C24: a quadrant starts at (0, 0) with both counters 0 and an invocation
\* starts with a table that holds no cell; the quadrants follow in the order
\* (+X,+Y), (+X,-Y), (-X,+Y), (-X,-Y), a cell is appended behind the rows of
\* the table and lies in the quadrant being swept; the table is written
\* once, after the fourth quadrant has ended.
C24_QuadrantStateIsFresh ==
    /\ []((Sweeping /\ stepCount = 0) =>
              /\ gridI = 0 /\ gridJ = 0
              /\ NotHitCount = 0 /\ NotHitRowCount = 0)
    /\ []((Sweeping /\ ~Stepped) =>
              /\ Len(CellRows) = 0 /\ Len(HitBoxesInfo) = 3
              /\ <<SignX, SignY>> = <<1, 1>>)
    /\ []((Stepped /\ boxStep.kind = "EndQuadrant") =>
              /\ stepCount = 0
              /\ IF boxPc = "Done"
                 THEN <<boxStep.SignX, boxStep.SignY>> = <<-1, -1>>
                 ELSE <<SignX, SignY>> = NextQuadrant(<<boxStep.SignX, boxStep.SignY>>))
    /\ []((Stepped /\ boxStep.kind = "Hit") =>
              LET cell == HitBoxesInfo[Len(HitBoxesInfo)]
              IN  /\ (cell.x - Origin[1]) * SignX >= 0
                  /\ (cell.y - Origin[2]) * SignY >= 0)
    /\ [](savedFile.written =>
              /\ boxPc = "Done" /\ savedFile.text = HitBoxesInfo
              /\ boxStep.kind = "EndQuadrant"
              /\ <<boxStep.SignX, boxStep.SignY>> = <<-1, -1>>)
    /\ [][/\ Sweeping => \/ HitBoxesInfo' = HitBoxesInfo
                         \/ /\ Len(HitBoxesInfo') = Len(HitBoxesInfo) + 1
                            /\ SubSeq(HitBoxesInfo', 1, Len(HitBoxesInfo)) = HitBoxesInfo
          /\ savedFile.written => savedFile' = savedFile]_vars

\* The fourth quadrant of a border that is not symmetric ended after the
\* second and third rows of a quadrant were closed without a cell, and the
\* table with its cells was written.
C24_Witness ==
    /\ boxPc = "Done" /\ savedFile.written
    /\ boxStep.NotHitRowCount = 2 /\ NotHitRowCount = 0
    /\ boxCall.Border.MinXExtend # -boxCall.Border.MaxXExtend
    /\ Len(CellRows) > 0

\* C25: while a cell is recorded, every hit record whose actor is read
\* belongs to a probe that reported a hit in that grid step, and the step
\* does not end in a null dereference.
C25_OnlyReportedHitsAreRead ==
    (Stepped /\ boxStep.kind = "Hit") =>
        /\ ("HitResult" \in boxStep.read) => boxStep.bIsHit
        /\ ("UpHitResult" \in boxStep.read) => boxStep.bIsInside
        /\ boxPc # Crashed

\* C29: a call with EnableTrace false returns, whatever the scene and the
\* other parameters, without a sweep step, a table or a file.
C29_NoTraceReturnsAtOnce ==
    /\ [](~boxCall.EnableTrace =>
              /\ ~Sweeping /\ ~Stepped /\ stepCount = 0
              /\ HitBoxesInfo = <<>>
              /\ ~savedFile.written)
    /\ ((boxPc = "Called" /\ ~boxCall.EnableTrace) ~> (boxPc = "Returned"))

-----------------------------------------------------------------------------
(* Claims about the batch sweep *)

\* Stem and extension of a path: the extension begins at the last "." of
\* the file name (what follows the last "/"), if it has one.
ExtensionDot(P) ==
    LET dot == LastIndexOf(P, ".")
    IN  IF dot > LastIndexOf(P, "/") THEN dot ELSE 0
StemOf(P) == IF ExtensionDot(P) = 0 THEN P ELSE SubSeq(P, 1, ExtensionDot(P) - 1)
ExtensionOf(P) == IF ExtensionDot(P) = 0 THEN <<>> ELSE SubSeq(P, ExtensionDot(P), Len(P))
\* k as three digits (k < 1000).
ThreeDigits(k) ==
    <<DecimalDigits[(k \div 100) + 1], DecimalDigits[((k \div 10) % 10) + 1],
      DecimalDigits[(k % 10) + 1]>>
BatchSeedsGiven == batchCall.StartPoints

\* C21: the batch calls the single-seed sweep once per seed, in list order,
\* with random start off, from the seed raised by 2000 in Z down to
\* seed.Z - ZExtend, and with the path stem, k in three digits, extension for
\* the k-th seed; the paths of distinct seeds differ.
C21_BatchCallsPerSeed ==
    (batchPc # NotCalled) =>
        /\ Len(batchLog) <= Len(BatchSeedsGiven)
        /\ (batchPc = "Returned") => Len(batchLog) = Len(BatchSeedsGiven)
        /\ \A k \in 1..Len(batchLog) :
              LET seed == BatchSeedsGiven[k]
                  call == batchLog[k].call
              IN  /\ call.StartPoint = <<seed[1], seed[2], seed[3] + 2000>>
                  /\ call.HitEndZ = seed[3] - batchCall.ZExtend
                  /\ ~call.UseRandomStartPointXAndY
                  /\ call.EnableTrace = batchCall.EnableTrace
                  /\ call.BoxHalfSize = batchCall.BoxHalfSize
                  /\ call.Border = batchCall.Border
                  /\ batchLog[k].PathToSave =
                         StemOf(batchCall.PathToSaveResults) \o ThreeDigits(k)
                             \o ExtensionOf(batchCall.PathToSaveResults)
        /\ \A k, l \in 1..Len(batchLog) :
              k # l => batchLog[k].PathToSave # batchLog[l].PathToSave
        /\ \A f \in batchFiles : \E k \in 1..Len(batchLog) : f.path = batchLog[k].PathToSave

-----------------------------------------------------------------------------
(* Claims about the axis conversions *)

\* C22: ConvertUnrealToOpenCV followed by ConvertOpenCVToUnreal, and the two
\* in the opposite order, give back the transform: rotation, translation and
\* scale as they were.
C22_ConversionsAreInverses ==
    (convLog \in {<<"ConvertUnrealToOpenCV", "ConvertOpenCVToUnreal">>,
                  <<"ConvertOpenCVToUnreal", "ConvertUnrealToOpenCV">>})
        => /\ convTransform.Rotation = convOriginal.Rotation
           /\ convTransform.Translation = convOriginal.Translation
           /\ convTransform.Scale3D = convOriginal.Scale3D

\* A turned, moved pose of unequal scale went to OpenCV axes, where its
\* rotation, position and scale read differently, and came back.
C22_Witness ==
    /\ convLog = <<"ConvertUnrealToOpenCV", "ConvertOpenCVToUnreal">>
    /\ convTransform = convOriginal
    /\ convOriginal.Translation = <<1, 2, 3>>
    /\ convOriginal.Scale3D = <<1, 2, 1>>
    /\ convOriginal.Rotation # <<<<1, 0, 0>>, <<0, 1, 0>>, <<0, 0, 1>>>>
    /\ LET cv == ConvertUnrealToOpenCV(convOriginal)
       IN  /\ cv.Translation = <<2, -3, 1>>
           /\ cv.Scale3D # convOriginal.Scale3D
           /\ cv.Rotation # convOriginal.Rotation

-----------------------------------------------------------------------------
(* Claims about the inside probe *)

InsideCalled == insideCall.op = "TestInside"
\* Every hit of the two rays is a hit on an actor.
HitsHaveActors ==
    /\ \A u \in 1..Len(insideCall.Up.Hits) : insideCall.Up.Hits[u].Actor # NoActor
    /\ \A d \in 1..Len(insideCall.Down.Hits) : insideCall.Down.Hits[d].Actor # NoActor
\* The upward hits whose actor is among the downward hits.
UpHitsSeenBelow ==
    {u \in 1..Len(insideCall.Up.Hits) :
        \E d \in 1..Len(insideCall.Down.Hits) :
            insideCall.Up.Hits[u].Actor = insideCall.Down.Hits[d].Actor}

\* C23: the inside probe succeeds iff both rays report a hit and some actor
\* is among the hits of both; it then gives the first upward hit whose actor
\* is among the downward hits, and otherwise leaves the caller's record as it
\* was.
C23_InsideProbe ==
    (InsideCalled /\ HitsHaveActors) =>
        /\ insideRet \in {RetTrue, RetFalse}
        /\ (insideRet = RetTrue) <=>
              (insideCall.Up.bIsHit /\ insideCall.Down.bIsHit /\ UpHitsSeenBelow # {})
        /\ (insideRet = RetTrue) =>
              \E u \in UpHitsSeenBelow :
                  /\ \A v \in UpHitsSeenBelow : u <= v
                  /\ insideUpHitResult = insideCall.Up.Hits[u]
        /\ (insideRet = RetFalse) => insideUpHitResult = insideCall.Prior

\* Two upward hits are on actors the downward ray hit too, the nearer one
\* being matched by the farther downward hit: the probe gives the nearer.
C23_Witness ==
    /\ InsideCalled /\ HitsHaveActors
    /\ insideRet = RetTrue
    /\ UpHitsSeenBelow = {1, 2}
    /\ insideCall.Up.Hits[1].Actor # insideCall.Up.Hits[2].Actor
    /\ insideCall.Down.Hits[1].Actor = insideCall.Up.Hits[2].Actor
    /\ insideUpHitResult = insideCall.Up.Hits[1]
    /\ insideCall.Prior.Actor = "Rock"

-----------------------------------------------------------------------------
(* Claims about DetectOcclusionMesh *)

MeshClassified == occCall.op = "DetectOcclusionMesh" /\ occCall.isSuccess
\* ceil(n / d) for d > 0
CeilDiv(n, d) == (n + d - 1) \div d

\* C26: with SampleRate S > 1 the vertices at indices 0, S, 2S, ... below N
\* are classified, ceil(N/S) of them in their order; with S <= 1 all N are;
\* the rates are counts over the vertices classified.
C26_SamplingStride ==
    MeshClassified =>
        LET N == Len(occCall.VertexPositions)
            S == occCall.SampleRate
            M == IF S > 1 THEN CeilDiv(N, S) ELSE N
            Labels == occCall.VerticesOcclusion
        IN  /\ Len(occCall.VertexPositionsSampled) = M
            /\ \A k \in 1..M :
                  occCall.VertexPositionsSampled[k] =
                      occCall.VertexPositions[IF S > 1 THEN (k - 1) * S + 1 ELSE k]
            /\ rayCount = M
            /\ Len(Labels) = M
            /\ \A k \in 1..M : occCall.hits[k].HitResult.TraceEnd
                                   = occCall.VertexPositionsSampled[k]
            /\ non_occlusion_rate = FloatDiv(CountOf(Labels, NonOcclusion), M)
            /\ self_occlusion_rate = FloatDiv(CountOf(Labels, SelfOcclusion), M)
            /\ inter_occlusion_rate = FloatDiv(CountOf(Labels, InterOcclusion), M)

\* Four vertices at stride 3: the first and the fourth are classified, one
\* of them occluded by another actor, and the rates are halves.
C26_Witness ==
    /\ MeshClassified
    /\ Len(occCall.VertexPositions) = 4 /\ occCall.SampleRate = 3
    /\ occCall.VertexPositionsSampled = <<PointAt(1), PointAt(4)>>
    /\ inter_occlusion_rate = Ratio(1, 2)
    /\ non_occlusion_rate = Ratio(1, 2)

-----------------------------------------------------------------------------
(* Claims about the two classifiers *)

\* C27: on the same ray (hit or not, owner or another actor, near or far),
\* with tolerance 5, the Gear loop counts the sample in the class that
\* GetOcclusionFromHitResult gives it.
C27_ClassifiersAgree ==
    (/\ Classified /\ gearClass # NotCalled
     /\ occCall.MeshThickness = 5
     /\ (occCall.bIsHit => occCall.HitResult.Actor # NoActor))
        => gearClass = occRet

-----------------------------------------------------------------------------
(* Claims about the mesh operator *)

BoneNamesOnlyInFirstFrame ==
    /\ \A w \in meshWritten : w.kind = "BoneName" => w.frame = 1
    /\ bIsFirstFrame <=> meshFrame = 0

\* C28: bone names are written only in the first received frame, the flag
\* is true for that call only, and every skeletal mesh with a joint-position
\* file from some frame has its bone-name file from the first frame, also
\* when its vertices could not be sampled in the first frame.
C28_BoneNamesSavedOnce ==
    /\ BoneNamesOnlyInFirstFrame
    /\ \A w \in meshWritten :
          w.kind = "Skeleton" => Written("BoneName", w.mesh, 1) \in meshWritten

-----------------------------------------------------------------------------
(* Claims about the annotator *)

ExportsOnlyWhenInitialized ==
    \A i \in 1..Len(annTicks) : annTicks[i].exported => annTicks[i].after

InitializedForGood ==
    \A i \in 1..Len(annTicks) :
        annTicks[i].before => annTicks[i].after /\ ~annTicks[i].bodyRan

\* C30: no export happens in a Tick that leaves bInitialized false;
\* Initialize sets bInitialized only in a call that found a playing
\* level-sequence actor, and never reads the unset actor; once set the flag
\* stays set and the initialization body is not run again.
C30_InitializedOnce ==
    /\ ExportsOnlyWhenInitialized
    /\ InitializedForGood
    /\ \A i \in 1..Len(annTicks) :
          /\ ~annTicks[i].readUnset
          /\ (~annTicks[i].before /\ annTicks[i].after) => annTicks[i].found

=============================================================================
